---- MODULE Spec2Model ----
(***************************************************************************)
(* Model of generate_tiles: the Web Mercator tile quadtree                 *)
(* (webmercatorcell.py), the list of empty tiles                           *)
(* (generate_list_of_empties.py, prune_empties.py) and the two-phase tile  *)
(* generation (generate.py).                                               *)
(*                                                                         *)
(* A tree of WebMercatorCell objects is a function from paths to cells.    *)
(* A path is the sequence of child slots (0 = cell_0 .. 3 = cell_3) that   *)
(* leads from the root object to the object; the root is << >>.  An object *)
(* is attached to its parent exactly when its path is in the domain.       *)
(***************************************************************************)
EXTENDS Integers, Sequences, FiniteSets, TLC

\* ------------------------------------------------------------------ bounds

\* Deepest level of the grids of the tree operations and of the list of
\* empty tiles.
MaxLevel == 3

\* Deepest max_level generate_tiles is run with.
MaxTileLevel == 2

\* Largest number of landmass polygons (islands) in the landmass input.
MaxLand == 2

\* The calls of generate_mercator_tile_grid tried in a row.
MaxCalls == 2

\* The program partitions the leaf tiles by their ancestors 7 levels up
\* (max_level - 7) and renders them in blocks of level max(min_level, 7,
\* max_level - 5).  Grids that deep cannot be enumerated; the model keeps the
\* formulas and scales the three numbers down to the depth of its grids.
PartitionDepth == 1

BlockFloor == 1

BlockDepth == 1

\* create_packages puts the tiles up to level 5 into one package and splits
\* each level from 6 on by the blocks 6 levels up; 6 is scaled likewise.
ArchiveSplit == 1

\* ------------------------------------------------------- program constants

\* proj_mercator(lat1, -180) and proj_mercator(lat0, 180): the root cell is
\* the square [-pi R, pi R]^2.  The model measures Mercator coordinates in
\* units of pi R / 1024, so that every midpoint down to level 10 is exact.
HalfExtent == 1024

\* invert_mercator(x, y) > 60 exactly when y > R ln(tan(75 deg)), which is
\* 0.4192 pi R = 429.26 units; on integer coordinates: y > 429.
Lat60Y == 429

Slots == 0 .. 3

Levels == 0 .. MaxLevel

TileLevels == 0 .. MaxTileLevel

\* ------------------------------------------------------------ the quadtree

\* WebMercatorCell(level, i, j, x0, x1, y0, y1, None, None, None, None)
WebMercatorCell(level, i, j, x0, x1, y0, y1) ==
    [level |-> level, i |-> i, j |-> j, x0 |-> x0, x1 |-> x1, y0 |-> y0, y1 |-> y1]

\* The (level, i, j) of a cell: what __hash__ hashes and the files name.
Address(cell) == <<cell.level, cell.i, cell.j>>

\* The landmass input: islands, each a small polygon around one point.  The
\* points lie strictly inside one cell at every level the model builds.
LandPoints ==
    { <<-1000, 1000>>, <<100, 100>>, <<300, 100>>, <<-900, -300>>, <<900, -300>> }

RECURSIVE SubsetsUpTo(_, _)
SubsetsUpTo(S, k) ==
    IF k = 0 THEN { {} }
    ELSE LET P == SubsetsUpTo(S, k - 1)
         IN  P \cup { p \cup {x} : p \in P, x \in S }

LandInputs == SubsetsUpTo(LandPoints, MaxLand)

\* turfpy's intersect([feature, polygon]) is not None, for an island and the
\* polygon of a cell's bounding box.
intersect(pt, cell) ==
    /\ cell.x0 < pt[1] /\ pt[1] < cell.x1
    /\ cell.y1 < pt[2] /\ pt[2] < cell.y0

\* The conditions the program passes to subdivide and prune, as data:
\*   [kind |-> "true"]                      lambda _: True
\*   [kind |-> "within", features |-> S]    generate_within_polygon_checker
\*   [kind |-> "empty", set |-> E]          EmptyChecker(E)
EmptyChecker(empty_set, cell) == Address(cell) \in empty_set

generate_within_polygon_checker(features, cell) ==
    \E f \in features : intersect(f, cell)

Condition(c, cell) ==
    CASE c.kind = "true"   -> TRUE
      [] c.kind = "within" -> generate_within_polygon_checker(c.features, cell)
      [] c.kind = "empty"  -> EmptyChecker(c.set, cell)

\* As NewChild, with cell_2 given the indices of cell_1.
NewChildWrongSlots(parent, k) ==
    LET xmid == (parent.x0 + parent.x1) \div 2
        ymid == (parent.y0 + parent.y1) \div 2
    IN  CASE k = 0 -> WebMercatorCell(parent.level + 1, 2 * parent.i, 2 * parent.j,
                                      parent.x0, xmid, parent.y0, ymid)
          [] k = 1 -> WebMercatorCell(parent.level + 1, 2 * parent.i + 1, 2 * parent.j,
                                      xmid, parent.x1, parent.y0, ymid)
          [] k = 2 -> WebMercatorCell(parent.level + 1, 2 * parent.i + 1, 2 * parent.j,
                                      parent.x0, xmid, ymid, parent.y1)
          [] k = 3 -> WebMercatorCell(parent.level + 1, 2 * parent.i + 1, 2 * parent.j + 1,
                                      xmid, parent.x1, ymid, parent.y1)

\* The child that conditional_recursive_subdivide creates in slot k.
NewChild(parent, k) ==
    LET xmid == (parent.x0 + parent.x1) \div 2
        ymid == (parent.y0 + parent.y1) \div 2
    IN  CASE k = 0 -> WebMercatorCell(parent.level + 1, 2 * parent.i, 2 * parent.j,
                                      parent.x0, xmid, parent.y0, ymid)
          [] k = 1 -> WebMercatorCell(parent.level + 1, 2 * parent.i + 1, 2 * parent.j,
                                      xmid, parent.x1, parent.y0, ymid)
          [] k = 2 -> WebMercatorCell(parent.level + 1, 2 * parent.i, 2 * parent.j + 1,
                                      parent.x0, xmid, ymid, parent.y1)
          [] k = 3 -> WebMercatorCell(parent.level + 1, 2 * parent.i + 1, 2 * parent.j + 1,
                                      xmid, parent.x1, ymid, parent.y1)

\* self.__setattr__(cell_key, cell): the object at path q becomes attached.
Attach(tree, q, cell) == (q :> cell) @@ tree

IsPrefix(q, p) == Len(q) <= Len(p) /\ SubSeq(p, 1, Len(q)) = q

\* setattr(self, attr, None): the object at q and all below it are dropped.
Detach(tree, q) ==
    [x \in {p \in DOMAIN tree : ~IsPrefix(q, p)} |-> tree[x]]

RECURSIVE conditional_recursive_subdivide(_, _, _, _)
RECURSIVE SubdivideSlots(_, _, _, _, _)

\* As SubdivideSlots, with every child attached, and those the condition
\* holds of subdivided.
SubdivideSlotsAttachAll(tree, p, c, max_depth, k) ==
    IF k > 3 THEN tree
    ELSE LET q    == Append(p, k)
             cell == IF q \in DOMAIN tree THEN tree[q] ELSE NewChild(tree[p], k)
             t1   == IF Condition(c, cell)
                     THEN conditional_recursive_subdivide(Attach(tree, q, cell), q, c, max_depth)
                     ELSE Attach(tree, q, cell)
         IN  SubdivideSlots(t1, p, c, max_depth, k + 1)

\* The loop of conditional_recursive_subdivide over cell_0 .. cell_3, from
\* slot k on; each child is subdivided before the next slot is looked at.
SubdivideSlots(tree, p, c, max_depth, k) ==
    IF k > 3 THEN tree
    ELSE LET q    == Append(p, k)
             cell == IF q \in DOMAIN tree THEN tree[q] ELSE NewChild(tree[p], k)
             t1   == IF Condition(c, cell)
                     THEN conditional_recursive_subdivide(Attach(tree, q, cell), q, c, max_depth)
                     ELSE tree
         IN  SubdivideSlots(t1, p, c, max_depth, k + 1)

\* As conditional_recursive_subdivide, with the depth test off by one.
SubdivideOneTooDeep(tree, p, c, max_depth) ==
    IF tree[p].level > max_depth THEN tree
    ELSE SubdivideSlots(tree, p, c, max_depth, 0)

conditional_recursive_subdivide(tree, p, c, max_depth) ==
    IF tree[p].level >= max_depth THEN tree
    ELSE SubdivideSlots(tree, p, c, max_depth, 0)

full_recursive_subdivide(tree, p, max_depth) ==
    conditional_recursive_subdivide(tree, p, [kind |-> "true"], max_depth)

RootCell == WebMercatorCell(0, 0, 0, -HalfExtent, HalfExtent, HalfExtent, -HalfExtent)

RootOnly == [p \in { <<>> } |-> RootCell]

generate_webmercator_grid(refine_to_level) ==
    full_recursive_subdivide(RootOnly, <<>>, refine_to_level)

RECURSIVE flatten(_, _)
RECURSIVE FlattenSlots(_, _, _)

FlattenSlots(tree, p, k) ==
    IF k > 3 THEN <<>>
    ELSE (IF Append(p, k) \in DOMAIN tree THEN flatten(tree, Append(p, k)) ELSE <<>>)
         \o FlattenSlots(tree, p, k + 1)

\* As flatten, with self after its children.
FlattenSelfLast(tree, p) == FlattenSlots(tree, p, 0) \o <<p>>

\* self, then the flattened cell_0, cell_1, cell_2 and cell_3 that exist.
flatten(tree, p) == <<p>> \o FlattenSlots(tree, p, 0)

RECURSIVE prune_children(_, _, _)
RECURSIVE PruneSlots(_, _, _, _)

PruneSlots(tree, p, c, k) ==
    IF k > 3 THEN tree
    ELSE LET q  == Append(p, k)
             t1 == IF q \notin DOMAIN tree THEN tree
                   ELSE IF Condition(c, tree[q]) THEN Detach(tree, q)
                   ELSE prune_children(tree, q, c)
         IN  PruneSlots(t1, p, c, k + 1)

prune_children(tree, p, c) == PruneSlots(tree, p, c, 0)

\* ----------------------------------------------------------------- helpers

Range(s) == { s[n] : n \in DOMAIN s }

RECURSIVE Pow(_, _)
Pow(b, e) == IF e = 0 THEN 1 ELSE b * Pow(b, e - 1)


\* ------------------------------------------------ the list of empty tiles

Max(a, b) == IF a >= b THEN a ELSE b

\* list(filter(lambda v: v.level >= min_level, root.flatten()))
AllCells(root, minl) ==
    LET AtLeast(p) == root[p].level >= minl
    IN  SelectSeq(flatten(root, <<>>), AtLeast)

CellsOfLevel(root, cells, level) ==
    LET At(p) == root[p].level = level
    IN  SelectSeq(cells, At)

\* list(filter(lambda v: v.level == max(min_level, max_level - 7), all_cells))
IntermediateCells(root, minl, maxl) ==
    CellsOfLevel(root, AllCells(root, minl), Max(minl, maxl - PartitionDepth))

\* The features of polygons_clipped: intersect([p, polygon]) is not None.
PolygonsClipped(polygons, cell) == { f \in polygons : intersect(f, cell) }

\* As Polar, without the test of the northern latitudes.
PolarSouthOnly(cell) == cell.y0 < -Lat60Y

\* lat0 < -60 or lat1 > 60, with lat0 the latitude of y0 and lat1 that of y1.
Polar(cell) == cell.y0 < -Lat60Y \/ cell.y1 > Lat60Y

\* does_intersect of the loop over highest_level_cells
DoesIntersect(polygons_clipped, cell) ==
    IF Polar(cell) THEN FALSE
    ELSE \E f \in polygons_clipped : intersect(f, cell)

\* filter(lambda v: v.level == max_level, intermediate_cell.flatten())
HighestLevelCells(root, pcell, maxl) ==
    CellsOfLevel(root, flatten(root, pcell), maxl)

\* The cells the loop over highest_level_cells adds to empties.
EmptyLeaves(root, pcell, polygons, maxl) ==
    { q \in Range(HighestLevelCells(root, pcell, maxl)) :
        ~DoesIntersect(PolygonsClipped(polygons, root[pcell]), root[q]) }

\* The leaf cells whose polygon the loop tests against polygons_clipped.
TestedLeaves(root, pcell, polygons, maxl) ==
    { q \in Range(HighestLevelCells(root, pcell, maxl)) :
        ~Polar(root[q]) /\ PolygonsClipped(polygons, root[pcell]) # {} }

\* cell.cell_k in empties
ChildIn(root, p, k, empties) ==
    Append(p, k) \in DOMAIN root /\ Append(p, k) \in empties

\* As SweepLevel, with one child in empties taken as enough.
SweepLevelAnyChild(root, cells, empties, level) ==
    empties \cup
        { p \in Range(CellsOfLevel(root, cells, level)) :
            \E k \in Slots : ChildIn(root, p, k, empties) }

\* As SweepLevel, with the cells of the level below taken for the level.
SweepLevelBelow(root, cells, empties, level) ==
    empties \cup
        { p \in Range(CellsOfLevel(root, cells, level + 1)) :
            \A k \in Slots : ChildIn(root, p, k, empties) }

\* One round of "go up the hierarchy": the cells of the level all of whose
\* four children are in empties are added.
SweepLevel(root, cells, empties, level) ==
    empties \cup
        { p \in Range(CellsOfLevel(root, cells, level)) :
            \A k \in Slots : ChildIn(root, p, k, empties) }

RECURSIVE LeavesFrom(_, _, _, _, _)
LeavesFrom(root, parts, polygons, maxl, n) ==
    IF n > Len(parts) THEN {}
    ELSE EmptyLeaves(root, parts[n], polygons, maxl)
         \cup LeavesFrom(root, parts, polygons, maxl, n + 1)

RECURSIVE SweepFrom(_, _, _, _, _)
SweepFrom(root, cells, empties, level, minl) ==
    IF level < minl THEN empties
    ELSE SweepFrom(root, cells, SweepLevel(root, cells, empties, level), level - 1, minl)

\* generate_list_of_empty_tiles, as the set of the cells it returns.
generate_list_of_empty_tiles(root, polygons, minl, maxl) ==
    LET leaves == LeavesFrom(root, IntermediateCells(root, minl, maxl), polygons, maxl, 1)
    IN  SweepFrom(root, AllCells(root, minl), leaves, maxl - 1, minl)

\* ------------------------------------------------ the file of empty tiles

Digit(d) ==
    CASE d = 0 -> "0" [] d = 1 -> "1" [] d = 2 -> "2" [] d = 3 -> "3" [] d = 4 -> "4"
      [] d = 5 -> "5" [] d = 6 -> "6" [] d = 7 -> "7" [] d = 8 -> "8" [] d = 9 -> "9"

DigitChars == { "0", "1", "2", "3", "4", "5", "6", "7", "8", "9" }

DigitValue(ch) == CHOOSE d \in 0 .. 9 : Digit(d) = ch

\* str(n) of a natural number: its decimal digits.
RECURSIVE Str(_)
Str(n) == IF n < 10 THEN <<Digit(n)>> ELSE Str(n \div 10) \o <<Digit(n % 10)>>

\* int(w): the number, or the ValueError int raises.
RECURSIVE IntOf(_)
IntOf(w) ==
    IF w = <<>> \/ \E n \in DOMAIN w : w[n] \notin DigitChars THEN "ValueError"
    ELSE IF Len(w) = 1 THEN DigitValue(w[1])
    ELSE 10 * IntOf(SubSeq(w, 1, Len(w) - 1)) + DigitValue(w[Len(w)])

\* F'{tile.level}/{tile.i}/{tile.j}.png\n'
FormatLine(cell) ==
    Str(cell.level) \o <<"/">> \o Str(cell.i) \o <<"/">> \o Str(cell.j)
        \o <<".", "p", "n", "g", "\n">>

Whitespace == { " ", "\n", "\t", "\r" }

\* line.strip()
RECURSIVE Strip(_)
Strip(w) ==
    IF w = <<>> THEN w
    ELSE IF w[1] \in Whitespace THEN Strip(Tail(w))
    ELSE IF w[Len(w)] \in Whitespace THEN Strip(SubSeq(w, 1, Len(w) - 1))
    ELSE w

\* w.removesuffix(suffix)
RemoveSuffix(w, suffix) ==
    IF Len(w) >= Len(suffix) /\ SubSeq(w, Len(w) - Len(suffix) + 1, Len(w)) = suffix
    THEN SubSeq(w, 1, Len(w) - Len(suffix))
    ELSE w

\* w.split(sep): the pieces between the separators.
RECURSIVE Split(_, _)
Split(w, sep) ==
    IF \A n \in DOMAIN w : w[n] # sep THEN <<w>>
    ELSE LET n == CHOOSE m \in DOMAIN w : w[m] = sep /\ \A l \in 1 .. m - 1 : w[l] # sep
         IN  <<SubSeq(w, 1, n - 1)>> \o Split(SubSeq(w, n + 1, Len(w)), sep)

\* level, i, j = tuple(map(int, w.split('/'))) of load_empties
ParseLine(line) ==
    LET w     == RemoveSuffix(Strip(line), <<".", "p", "n", "g">>)
        parts == Split(w, "/")
    IN  IF Len(parts) # 3 THEN "ValueError"
        ELSE <<IntOf(parts[1]), IntOf(parts[2]), IntOf(parts[3])>>

\* Tuples of numbers compare as Python compares them.
TupleLess(a, b) ==
    \E n \in 1 .. Len(a) :
        /\ n <= Len(b)
        /\ \A m \in 1 .. n - 1 : a[m] = b[m]
        /\ a[n] < b[n]

\* As SortKey, without the level.
SortKeyNoLevel(cell) == <<cell.i, cell.j>>

\* key=lambda tile: (tile.level, tile.i, tile.j)
SortKey(cell) == <<cell.level, cell.i, cell.j>>

\* list(empties): the cells of the set in some order; the model takes the
\* order in which flatten meets them.
ListOf(root, cells) ==
    LET In(p) == p \in cells
    IN  SelectSeq(flatten(root, <<>>), In)

\* sorted(tiles, key=...): the tiles by ascending key.
Sorted(root, tiles) ==
    LET Before(a, b) == TupleLess(SortKey(root[a]), SortKey(root[b]))
    IN  SortSeq(tiles, Before)

\* The lines generate_empties_file writes.
EmptiesFile(root, cells) ==
    LET tiles == Sorted(root, ListOf(root, cells))
    IN  [n \in DOMAIN tiles |-> FormatLine(root[tiles[n]])]

\* The _empty_set load_empties reads from the file.
load_empties(lines) == { ParseLine(lines[n]) : n \in DOMAIN lines }

\* ------------------------------------------------------------ generate_tiles

\* Pool(2) of the leaf blocks and Pool(6) of the merges.
LeafPoolSize == 2

MergePoolSize == 6

\* The number of _get_heightdata calls of one merge.
MergeReadCount == 16

RECURSIVE inner_prune_empties(_, _, _)
RECURSIVE InnerPruneSlots(_, _, _, _)

\* The loop of _inner_prune_empties over cell_0 .. cell_3, from slot k on.
InnerPruneSlots(tree, p, E, k) ==
    IF k > 3 THEN tree
    ELSE LET q  == Append(p, k)
             t1 == IF q \notin DOMAIN tree THEN tree
                   ELSE IF EmptyChecker(E, tree[q]) THEN Detach(tree, q)
                   ELSE inner_prune_empties(tree, q, E)
         IN  InnerPruneSlots(t1, p, E, k + 1)

\* _inner_prune_empties(root, checker), as the tree it leaves.
inner_prune_empties(tree, p, E) == InnerPruneSlots(tree, p, E, 0)

\* blocklevel = max(min_level, 7, max_level - 5)
BlockLevel(minl, maxl) == Max(Max(minl, BlockFloor), maxl - BlockDepth)

\* As BlockLevelCells, with the cells below the block level taken as well.
BlockCellsFromLevel(tree, bl) ==
    LET At(p) == tree[p].level >= bl
    IN  SelectSeq(flatten(tree, <<>>), At)

\* list(filter(lambda n: n.level == blocklevel, root.flatten()))
BlockLevelCells(tree, bl) ==
    LET At(p) == tree[p].level = bl
    IN  SelectSeq(flatten(tree, <<>>), At)

\* As SkipsBlock, with the test of the checker left out.
NeverSkipsBlock(E, node) == FALSE

\* if checker(node): return
SkipsBlock(E, node) == EmptyChecker(E, node)

\* list(filter(lambda v: v.level == level and not checker(v), node.flatten()))
NodeList(tree, p, E, lvl) ==
    LET Wanted(q) == tree[q].level = lvl /\ ~EmptyChecker(E, tree[q])
    IN  SelectSeq(flatten(tree, p), Wanted)

\* The files of a tile: level/i/j.png and level/i/j.hgt.pgm.
TilePath(cell, ext) == <<cell.level, cell.i, cell.j, ext>>

\* generate_mercator_tile_grid(node, tile_directory, checker, level) as one
\* call: the files and the loaded blocks it leaves.
generate_mercator_tile_grid(tree, p, E, lvl, files, blocks) ==
    IF SkipsBlock(E, tree[p]) THEN [fs |-> files, loaded |-> blocks]
    ELSE LET node_list == NodeList(tree, p, E, lvl)
         IN  [fs     |-> files \cup { TilePath(tree[node_list[n]], ext) :
                                         n \in DOMAIN node_list, ext \in { "png", "hgt.pgm" } },
              loaded |-> blocks \cup { Address(tree[p]) }]

\* The file _get_heightdata(tile_directory, level, i, j) looks for.
HeightPath(lvl, i, j) ==
    LET maxindex == Pow(2, lvl)
        iw       == IF i < 0 THEN maxindex + i
                    ELSE IF i >= maxindex THEN i - maxindex
                    ELSE i
    IN  <<lvl, iw, j, "hgt.pgm">>

\* The offsets from (i0, j0) of the sixteen reads of a merge, in the order of
\* the code: the core data, then the margins.
MergeOffsets ==
    << <<0, 0>>, <<1, 0>>, <<0, 1>>, <<1, 1>>,
       <<-1, -1>>, <<0, -1>>, <<1, -1>>, <<2, -1>>,
       <<-1, 0>>, <<2, 0>>,
       <<-1, 1>>, <<2, 1>>,
       <<-1, 2>>, <<0, 2>>, <<1, 2>>, <<2, 2>> >>

\* As HeightReads, with the level of the cell in place of the level below.
HeightReadsSameLevel(cell) ==
    [n \in 1 .. MergeReadCount |->
        HeightPath(cell.level, 2 * cell.i + MergeOffsets[n][1],
                   2 * cell.j + MergeOffsets[n][2])]

\* As HeightReads, with the thumbnails taken two levels below the cell.
HeightReadsTwoBelow(cell) ==
    [n \in 1 .. MergeReadCount |->
        HeightPath(cell.level + 2, 2 * cell.i + MergeOffsets[n][1],
                   2 * cell.j + MergeOffsets[n][2])]

\* The files _generate_merged_cell_from_subcells(cell, dir, cell.level) reads.
HeightReads(cell) ==
    [n \in 1 .. MergeReadCount |->
        HeightPath(cell.level + 1, 2 * cell.i + MergeOffsets[n][1],
                   2 * cell.j + MergeOffsets[n][2])]

\* The write of a file by a task, added to the record of the writes.
Log(w, path, t) ==
    IF path \in DOMAIN w THEN [w EXCEPT ![path] = Append(@, t)]
    ELSE (path :> <<t>>) @@ w


\* --------------------------------------------- the operations, with a trace

\* The deepest tree the operations are tried on.
OpsDepth == 2

RECURSIVE prune_run(_, _, _)
RECURSIVE PruneRunSlots(_, _, _, _)

\* As PruneRunSlots, with the children of a child looked at before the child
\* is detached.
PruneRunSlotsDescending(run, p, c, k) ==
    IF k > 3 THEN run
    ELSE LET q      == Append(p, k)
             called == [run EXCEPT !.tested = @ \cup { q }]
             below  == prune_run(called, q, c)
             r1     == IF q \notin DOMAIN run.tree THEN run
                       ELSE IF Condition(c, run.tree[q])
                            THEN [below EXCEPT !.tree = Detach(below.tree, q),
                                               !.count = @ + 1]
                            ELSE below
         IN  PruneRunSlots(r1, p, c, k + 1)

\* The loop of prune_children and of _inner_prune_empties over cell_0 ..
\* cell_3, from slot k on, with the children the condition was called for
\* and the prune_count of _inner_prune_empties so far.
PruneRunSlots(run, p, c, k) ==
    IF k > 3 THEN run
    ELSE LET q      == Append(p, k)
             called == [run EXCEPT !.tested = @ \cup { q }]
             r1     == IF q \notin DOMAIN run.tree THEN run
                       ELSE IF Condition(c, run.tree[q])
                            THEN [called EXCEPT !.tree = Detach(run.tree, q),
                                                !.count = @ + 1]
                            ELSE prune_run(called, q, c)
         IN  PruneRunSlots(r1, p, c, k + 1)

prune_run(run, p, c) == PruneRunSlots(run, p, c, 0)

\* prune_count = 0, and no call of the condition yet.
StartRun(t) == [tree |-> t, tested |-> {}, count |-> 0]

RECURSIVE subdivide_run(_, _, _, _)
RECURSIVE SubdivideRunSlots(_, _, _, _, _)

\* The loop of conditional_recursive_subdivide over cell_0 .. cell_3, from
\* slot k on, with the objects the method was called on, the children the
\* condition was called for and the children that were newly built so far.
SubdivideRunSlots(run, p, c, max_depth, k) ==
    IF k > 3 THEN run
    ELSE LET q      == Append(p, k)
             isNew  == q \notin DOMAIN run.tree
             cell   == IF isNew THEN NewChild(run.tree[p], k) ELSE run.tree[q]
             called == [run EXCEPT !.tested = @ \cup { q },
                                   !.built = IF isNew THEN @ \cup { q } ELSE @]
             r1     == IF Condition(c, cell)
                       THEN subdivide_run([called EXCEPT !.tree = Attach(run.tree, q, cell)],
                                          q, c, max_depth)
                       ELSE called
         IN  SubdivideRunSlots(r1, p, c, max_depth, k + 1)

\* As subdivide_run, with the depth test off by one.
SubdivideRunOneTooDeep(run, p, c, max_depth) ==
    LET entered == [run EXCEPT !.calls = @ \cup { p }]
    IN  IF run.tree[p].level > max_depth THEN entered
        ELSE SubdivideRunSlots(entered, p, c, max_depth, 0)

\* conditional_recursive_subdivide(condition, max_depth) called on the object
\* at path p.
subdivide_run(run, p, c, max_depth) ==
    LET entered == [run EXCEPT !.calls = @ \cup { p }]
    IN  IF run.tree[p].level >= max_depth THEN entered
        ELSE SubdivideRunSlots(entered, p, c, max_depth, 0)

\* No call of the method or of the condition yet, no child built.
StartSubdivide(t) == [tree |-> t, calls |-> {}, tested |-> {}, built |-> {}]

\* The trees the operations are tried on: full grids, and grids refined
\* within a region.
StartTrees ==
    { generate_webmercator_grid(n) : n \in 0 .. OpsDepth }
    \cup { conditional_recursive_subdivide(RootOnly, <<>>,
                                           [kind |-> "within", features |-> { pt }], n) :
             pt \in LandPoints, n \in 1 .. OpsDepth }

\* The sets of addresses the EmptyChecker is tried with.
CheckerSets ==
    { {},
      { <<0, 0, 0>> },
      { <<1, 0, 0>>, <<2, 0, 0>>, <<2, 3, 3>> },
      { <<0, 0, 0>>, <<1, 1, 0>>, <<2, 2, 0>>, <<2, 1, 2>> },
      { <<1, 0, 0>>, <<1, 1, 0>>, <<1, 0, 1>>, <<1, 1, 1>> } }

OpsConditions ==
    { [kind |-> "true"] }
    \cup { [kind |-> "within", features |-> { pt }] : pt \in LandPoints }
    \cup { [kind |-> "within", features |-> { <<100, 100>>, <<-900, -300>> }] }

OpsCheckers == { [kind |-> "empty", set |-> S] : S \in CheckerSets }

RECURSIVE CellAt(_)
\* The cell of the object at path p: the root, or the child its parent gets
\* in the slot.
CellAt(p) ==
    IF p = <<>> THEN RootCell
    ELSE NewChild(CellAt(SubSeq(p, 1, Len(p) - 1)), p[Len(p)])

\* ------------------------------------- _generate_merged_cell_from_subcells

\* The deepest level of a merged cell, the side of a height thumbnail (128 in
\* the code) and the margin of the merge (8 in the code).
MaxMergeLevel == 2

ThumbSize == 2

Margin == 1

\* The most thumbnails on disk around one merged cell.
MaxThumbs == 1

\* The sample at row r and column c of the thumbnail of tile lvl/a/b: never
\* zero, and another value for every tile of the level and every place.
Sample(lvl, a, b, r, c) ==
    1 + c + ThumbSize * r + ThumbSize * ThumbSize * (a + Pow(2, lvl) * b)

ThumbIndex == (0 .. ThumbSize - 1) \X (0 .. ThumbSize - 1)

\* data = np.ndarray((256+2*margin, 256+2*margin)); data.fill(0)
BufferIndex ==
    (0 .. 2 * ThumbSize + 2 * Margin - 1) \X (0 .. 2 * ThumbSize + 2 * Margin - 1)

Zeros(index) == [p \in index |-> 0]

\* As get_heightdata, for a function that does not wrap the column index.
HeightDataNoWrap(files, lvl, i, j) ==
    IF <<lvl, i, j, "hgt.pgm">> \in files
    THEN [p \in ThumbIndex |-> Sample(lvl, i, j, p[1], p[2])]
    ELSE Zeros(ThumbIndex)

\* _get_heightdata(tile_directory, level, i, j): the array of the file, rows
\* first, or zeros if the file does not exist.
get_heightdata(files, lvl, i, j) ==
    LET fname == HeightPath(lvl, i, j)
    IN  IF fname \in files
        THEN [p \in ThumbIndex |-> Sample(lvl, fname[2], fname[3], p[1], p[2])]
        ELSE Zeros(ThumbIndex)

\* The slices of data along one axis, by the offset d of the thumbnail from
\* (i0, j0): [:margin], [margin:128+margin], [128+margin:256+margin] and
\* [256+margin:].
BandStart(d) ==
    CASE d = -1 -> 0
      [] d = 0  -> Margin
      [] d = 1  -> ThumbSize + Margin
      [] d = 2  -> 2 * ThumbSize + Margin

BandLength(d) == IF d \in { 0, 1 } THEN ThumbSize ELSE Margin

\* As SourceStart, with [:margin] for every margin.
SourceStartFirst(d) == 0

\* The slices of the thumbnail along one axis: [-margin:] for the thumbnails
\* before the cell, [:margin] for those after it, [:] for those along it.
SourceStart(d) == IF d = -1 THEN ThumbSize - Margin ELSE 0

InBand(x, d) == BandStart(d) <= x /\ x < BandStart(d) + BandLength(d)

\* data[rows, columns] = source[rows, columns] of the n-th read of the merge:
\* whether the place p of data is assigned, and the place of source it gets.
Assigns(n, p) ==
    InBand(p[1], MergeOffsets[n][2]) /\ InBand(p[2], MergeOffsets[n][1])

SourcePlace(n, p) ==
    <<p[1] - BandStart(MergeOffsets[n][2]) + SourceStart(MergeOffsets[n][2]),
      p[2] - BandStart(MergeOffsets[n][1]) + SourceStart(MergeOffsets[n][1])>>

\* data after the reads of the merge of the cell: each place holds what the
\* last assignment to it gave it, or the zero of data.fill(0).
MergedData(files, cell) ==
    LET source == [n \in 1 .. MergeReadCount |->
                      get_heightdata(files, cell.level + 1,
                                     2 * cell.i + MergeOffsets[n][1],
                                     2 * cell.j + MergeOffsets[n][2])]
    IN  [p \in BufferIndex |->
            LET hits == { n \in 1 .. MergeReadCount : Assigns(n, p) }
            IN  IF hits = {} THEN 0
                ELSE LET last == CHOOSE n \in hits : \A m \in hits : m <= n
                     IN  source[last][SourcePlace(last, p)]]

\* The cells a merge can be called for, and the thumbnails it can find.
MergeCells ==
    UNION { { [level |-> l, i |-> a, j |-> b] :
                a \in 0 .. Pow(2, l) - 1, b \in 0 .. Pow(2, l) - 1 } :
            l \in 0 .. MaxMergeLevel }

ThumbsAround(cell) ==
    { f \in Range(HeightReads(cell)) : 0 <= f[3] /\ f[3] < Pow(2, f[1]) }

\* ------------------------------------------- the images of a tile generator

\* An image is known by its side and by the box <<left, upper, right, lower>>
\* of the padded height buffer of the call that its samples are taken from.
\* The buffer itself: 256 + 16 samples a side in _generate_tile_from_data,
\* 256 + 2 * margin in _generate_merged_cell_from_subcells.
BufferSide == 2 * ThumbSize + 2 * Margin

BufferImage == [side |-> BufferSide, from |-> <<0, 0, BufferSide, BufferSide>>]

\* Image.crop(box) of an image that was not resized.
crop(img, box) ==
    [side |-> box[3] - box[1],
     from |-> <<img.from[1] + box[1], img.from[2] + box[2],
                img.from[1] + box[3], img.from[2] + box[4]>>]

\* Image.resize((size, size), box=box) of an image that was not resized: the
\* box is resampled onto size samples a side.
resize(img, size, box) ==
    [side |-> size,
     from |-> <<img.from[1] + box[1], img.from[2] + box[2],
                img.from[1] + box[3], img.from[2] + box[4]>>]

\* The box resize takes when none is given.
WholeImage(img) == <<0, 0, img.side, img.side>>

\* to_hillshade(array): an image of the shape of the array.
to_hillshade(img) == img

\* (8, 8, 256+8, 256+8) of the leaf, crop_box of the merge.
TileCropBox ==
    <<Margin, Margin, 2 * ThumbSize + Margin, 2 * ThumbSize + Margin>>

\* As LeafHeightBox, for a thumbnail resampled from all of the buffer.
LeafHeightBoxWhole == <<0, 0, BufferSide, BufferSide>>

\* box=(8, 8, 255+8, 255+8) of the resize of the leaf's heights.
LeafHeightBox ==
    <<Margin, Margin, 2 * ThumbSize - 1 + Margin, 2 * ThumbSize - 1 + Margin>>

\* What _generate_tile_from_data makes of its buffer cropped_resized.
LeafImages ==
    LET cropped_resized == BufferImage
        img_with_margin == to_hillshade(cropped_resized)
    IN  [buffer    |-> cropped_resized,
         hillshade |-> img_with_margin,
         img       |-> crop(img_with_margin, TileCropBox),
         heights   |-> resize(cropped_resized, ThumbSize, LeafHeightBox)]

\* What _generate_merged_cell_from_subcells makes of its buffer data.
MergeImages ==
    LET hillshade_with_margin == to_hillshade(BufferImage)
        cropped               == crop(BufferImage, TileCropBox)
    IN  [buffer    |-> BufferImage,
         hillshade |-> hillshade_with_margin,
         img       |-> crop(hillshade_with_margin, TileCropBox),
         heights   |-> resize(cropped, ThumbSize, WholeImage(cropped))]

\* The child in slot k of a cell, as a tile.
ChildTile(cell, k) ==
    [level |-> cell.level + 1, i |-> 2 * cell.i + (k % 2), j |-> 2 * cell.j + (k \div 2)]

\* ------------------------------------------------ create_archive_commands

\* As PathExists, for a test that never finds the path.
PathNeverExists(there) == FALSE

\* Path(...).exists() of a path that is there or not.
PathExists(there) == there

\* The first package of create_packages: the tiles up to level 5, scaled to
\* ArchiveSplit - 1.
FirstPackage(t, all) ==
    LET UpTo(p) == t[p].level <= ArchiveSplit - 1
    IN  [key      |-> <<0, 0, 0>>,
         filename |-> <<"tiles", 0, "to", ArchiveSplit - 1>>,
         tiles    |-> SelectSeq(all, UpTo)]

\* The package of the tiles of level i within one block of level i - 6.
BlockPackage(t, i, b) ==
    [key      |-> <<i, t[b].i, t[b].j>>,
     filename |-> <<"tiles", i, t[b].level, t[b].i, t[b].j>>,
     tiles    |-> CellsOfLevel(t, flatten(t, b), i)]

RECURSIVE LevelPackages(_, _, _, _)
\* The loop for i in range(6, max_level + 1), from level i on.
LevelPackages(t, all, i, maxl) ==
    IF i > maxl THEN <<>>
    ELSE LET blocks == CellsOfLevel(t, all, i - ArchiveSplit)
         IN  [n \in DOMAIN blocks |-> BlockPackage(t, i, blocks[n])]
             \o LevelPackages(t, all, i + 1, maxl)

\* create_packages(max_level), the grid pruned by the empties of the file.
create_packages(maxl, lines) ==
    LET t   == inner_prune_empties(generate_webmercator_grid(maxl), <<>>, load_empties(lines))
        all == flatten(t, <<>>)
        ps  == <<FirstPackage(t, all)>> \o LevelPackages(t, all, ArchiveSplit, maxl)
        ByKey(a, b) == TupleLess(a.key, b.key)
        sorted == SortSeq(ps, ByKey)
    IN  [n \in DOMAIN sorted |->
            [filename |-> sorted[n].filename,
             contents |-> LET cells == Sorted(t, sorted[n].tiles)
                          IN  [m \in DOMAIN cells |-> FormatLine(t[cells[m]])]]]

\* The files create_archive_commands writes for the packages: a contents and
\* a metadata file each, then the manifest and the two command files.
ArchiveFiles(packages) ==
    LET names == [n \in DOMAIN packages |-> packages[n].filename]
        perPackage == { <<"archive", names[n], ext>> :
                          n \in DOMAIN names, ext \in { "contents", "metadata" } }
        others == { <<"manifest.txt">>, <<"archive_commands">>, <<"upload_commands">> }
        ContentsOf(name) ==
            LET n == CHOOSE m \in DOMAIN packages : packages[m].filename = name
            IN  packages[n].contents
    IN  [f \in perPackage \cup others |->
            IF f \in others THEN (IF f = <<"manifest.txt">> THEN packages ELSE names)
            ELSE IF f[3] = "metadata" THEN <<f[2]>>
            ELSE ContentsOf(f[2])]

\* ------------------------------------------------------ the landmass input

\* The largest number of features of a landmass input.
MaxFeatures == 2

\* The names of the geometry types, in words, and None for no geometry.
PolygonType == <<"Polygon">>

MultiPolygonType == <<"Multi", "Polygon">>

PointType == <<"Point">>

NoneGeometry == [type |-> <<"None">>, at |-> <<0, 0>>]

\* The features of the inputs: an island as a Polygon and as a MultiPolygon,
\* a Point, and a feature with no geometry.
InputFeatures ==
    { [geometry |-> [type |-> PolygonType, at |-> <<100, 100>>]],
      [geometry |-> [type |-> MultiPolygonType, at |-> <<-900, -300>>]],
      [geometry |-> [type |-> PointType, at |-> <<300, 100>>]],
      [geometry |-> NoneGeometry] }

RECURSIVE SeqsUpTo(_, _)
SeqsUpTo(S, k) ==
    IF k = 0 THEN { <<>> }
    ELSE LET shorter == SeqsUpTo(S, k - 1)
         IN  shorter \cup { Append(s, x) : s \in shorter, x \in S }

\* What geojson.load returns: a FeatureCollection, or a single Feature.
Documents ==
    { [type |-> "FeatureCollection", features |-> fs, geometry |-> NoneGeometry] :
        fs \in SeqsUpTo(InputFeatures, MaxFeatures) }
    \cup { [type |-> "Feature", features |-> <<>>, geometry |-> f.geometry] :
             f \in InputFeatures }

\* j['features'] raises KeyError unless j is a FeatureCollection.
HasFeatures(j) == j.type = "FeatureCollection"

\* feature['geometry']['type'] raises TypeError if the geometry is None.
Subscriptable(feature) == feature.geometry # NoneGeometry

\* As HasPolygon, for a test of equality with 'Polygon'.
IsPolygonExactly(type) == type = PolygonType

\* 'Polygon' in feature['geometry']['type']
HasPolygon(type) == "Polygon" \in Range(type)

\* list(filter(...)) of line 35 raises, or gives the polygons.
FilterRaises(j) ==
    \/ ~HasFeatures(j)
    \/ \E n \in DOMAIN j.features : ~Subscriptable(j.features[n])

Polygons(j) ==
    { j.features[n].geometry.at :
        n \in { m \in DOMAIN j.features : HasPolygon(j.features[m].geometry.type) } }

\* ---------------------------------------------------------------- the state

VARIABLES
    tree,       \* the tree under the root object
    lastOp      \* the last operation on the tree

treeVars == <<tree, lastOp>>

VARIABLES
    min_level,  \* the arguments of generate_empties_file and generate_tiles
    max_level,
    land        \* the Polygon and MultiPolygon features of the landmass file

argVars == <<min_level, max_level, land>>

VARIABLES
    epc,        \* where generate_empties_file is
    root,       \* the grid root of generate_list_of_empty_tiles
    all_cells,  \* the list all_cells of generate_list_of_empty_tiles
    intermediate_cells,
    part,       \* intermediate_cell_index + 1 of the next partition cell
    level,      \* the level the next round of the upward sweep looks at
    empties,    \* the set empties
    clipped,    \* the cells whose polygon the landmass was clipped against
    tested,     \* the leaf cells whose polygon was tested for intersection
    file,       \* the lines of the file of empty tiles
    empty_set   \* _empty_set of the EmptyChecker load_empties returns

empVars == <<epc, root, all_cells, intermediate_cells, part, level, empties, clipped, tested, file, empty_set>>

VARIABLES
    gpc,        \* where generate_tiles is
    dir_exists, \* Path(tile_directory).exists()
    tile_cells, \* the list all_cells of generate_tiles, after the pruning
    queue,      \* the tasks of the running starmap no worker has taken yet
    task,       \* the tasks handed to the pools so far, and how far each is
    fs,         \* the files under tile_directory
    written,    \* for each file, the tasks that wrote it, in order
    readPaths,  \* the files _get_heightdata was asked for so far
    loaded,     \* the blocks _load_and_join_tiles was called for
    mlevel,     \* level of the loop of hierarchically_merge_lower_level_cells
    levelsDone, \* the values level has taken, in order
    lastNode,   \* the node of the last call of generate_mercator_tile_grid
    calls       \* the number of calls of generate_mercator_tile_grid made

tileVars == <<gpc, dir_exists, tile_cells, queue, task, fs, written, readPaths, loaded, mlevel, levelsDone, lastNode, calls>>

VARIABLES
    cmd,            \* the action of the command line that runs
    archive_exists, \* Path('archive/').exists()
    archive_files,  \* the files create_archive_commands writes, by name
    pre,            \* what was on disk when the command started
    doc,            \* the GeoJSON document of the landmass file
    merged,         \* the cell of a call of _generate_merged_cell_from_subcells
    data            \* the array data of that call

auxVars == <<cmd, archive_exists, archive_files, pre, doc, merged, data>>

vars == <<treeVars, argVars, empVars, tileVars, auxVars>>

\* ------------------------------------------- operations on one tree object

\* The regions of interest the tree operations are tried with.
TreeRegions ==
    { { <<100, 100>> }, { <<100, 100>>, <<300, 100>> }, { <<-900, -300>>, <<900, -300>> } }

TreeConditions ==
    { [kind |-> "true"] }
    \cup { [kind |-> "within", features |-> S] : S \in TreeRegions }

NoArgs == min_level = 0 /\ max_level = 0 /\ land = {}

NoEmpties ==
    /\ epc = "off" /\ part = 0 /\ level = 0
    /\ root = RootOnly /\ all_cells = <<>> /\ intermediate_cells = <<>>
    /\ empties = {} /\ clipped = {} /\ tested = {}
    /\ file = <<>> /\ empty_set = {}

NoTree == tree = RootOnly /\ lastOp = [op |-> "new"]

NoMerge == merged = <<>> /\ data = <<>>

NoAux ==
    /\ cmd = "none" /\ archive_exists = FALSE /\ archive_files = <<>>
    /\ pre = <<>> /\ doc = <<>>
    /\ NoMerge

NoTiles ==
    /\ gpc = "off" /\ dir_exists = FALSE
    /\ tile_cells = <<>> /\ queue = <<>> /\ task = <<>>
    /\ fs = {} /\ written = <<>> /\ readPaths = {} /\ loaded = {}
    /\ mlevel = 0 /\ levelsDone = <<>>
    /\ lastNode = <<>> /\ calls = 0

TreeInit ==
    /\ tree = RootOnly
    /\ lastOp = [op |-> "new"]
    /\ NoArgs
    /\ NoEmpties
    /\ NoTiles
    /\ NoAux

\* root = generate_webmercator_grid(n)
GenerateGrid(n) ==
    /\ tree' = generate_webmercator_grid(n)
    /\ lastOp' = [op |-> "grid", depth |-> n]
    /\ UNCHANGED <<argVars, empVars, tileVars, auxVars>>

\* root.conditional_recursive_subdivide(condition, max_depth)
Subdivide(c, d) ==
    /\ tree' = conditional_recursive_subdivide(tree, <<>>, c, d)
    /\ lastOp' = [op |-> "subdivide"]
    /\ UNCHANGED <<argVars, empVars, tileVars, auxVars>>

\* root.prune_children(condition)
Prune(c) ==
    /\ tree' = prune_children(tree, <<>>, c)
    /\ lastOp' = [op |-> "prune"]
    /\ UNCHANGED <<argVars, empVars, tileVars, auxVars>>

TreeNext ==
    \/ \E n \in Levels : GenerateGrid(n)
    \/ \E c \in TreeConditions, d \in Levels : Subdivide(c, d)
    \/ \E c \in TreeConditions : Prune(c)

SpecTree == TreeInit /\ [][TreeNext]_vars


\* ------------------------------------------------- generate_empties_file

EmptiesInit ==
    /\ max_level \in Levels
    /\ min_level \in 0 .. max_level
    /\ root = generate_webmercator_grid(max_level)
    /\ all_cells = AllCells(root, min_level)
    /\ intermediate_cells = IntermediateCells(root, min_level, max_level)
    /\ land \in LandInputs
    /\ epc = "partition"
    /\ part = 1
    /\ level = 0
    /\ empties = {}
    /\ clipped = {}
    /\ tested = {}
    /\ file = <<>>
    /\ empty_set = {}
    /\ NoTree
    /\ NoTiles
    /\ NoAux

\* One round of the loop over intermediate_cells: the landmass is clipped to
\* the partition cell and the leaf cells below it are classified.
ClassifyPartition ==
    /\ epc = "partition"
    /\ LET parts == intermediate_cells
       IN  /\ part <= Len(parts)
           /\ clipped' = (IF land = {} THEN clipped ELSE clipped \cup {parts[part]})
           /\ tested' = tested \cup TestedLeaves(root, parts[part], land, max_level)
           /\ empties' = empties \cup EmptyLeaves(root, parts[part], land, max_level)
           /\ part' = part + 1
           /\ IF part = Len(parts)
              THEN epc' = "sweep" /\ level' = max_level - 1
              ELSE UNCHANGED <<epc, level>>
    /\ UNCHANGED <<root, all_cells, intermediate_cells, file, empty_set, argVars, treeVars, tileVars, auxVars>>

\* One round of the loop "go up the hierarchy".
SweepOneLevel ==
    /\ epc = "sweep"
    /\ level >= min_level
    /\ empties' = SweepLevel(root, all_cells, empties, level)
    /\ level' = level - 1
    /\ UNCHANGED <<epc, root, all_cells, intermediate_cells, part, clipped, tested, file, empty_set, argVars, treeVars, tileVars, auxVars>>

\* return list(empties)
ReturnEmpties ==
    /\ epc = "sweep"
    /\ level < min_level
    /\ epc' = "return"
    /\ UNCHANGED <<root, all_cells, intermediate_cells, part, level, empties, clipped, tested, file, empty_set, argVars, treeVars, tileVars, auxVars>>

\* generate_empties_file sorts the tiles and writes the file.
WriteEmptiesFile ==
    /\ epc = "return"
    /\ file' = EmptiesFile(root, empties)
    /\ epc' = "written"
    /\ UNCHANGED <<root, all_cells, intermediate_cells, part, level, empties, clipped, tested, empty_set, argVars, treeVars, tileVars, auxVars>>

\* load_empties reads the file back.
LoadEmpties ==
    /\ epc = "written"
    /\ empty_set' = load_empties(file)
    /\ epc' = "loaded"
    /\ UNCHANGED <<root, all_cells, intermediate_cells, part, level, empties, clipped, tested, file, argVars, treeVars, tileVars, auxVars>>

EmptiesNext ==
    \/ ClassifyPartition
    \/ SweepOneLevel
    \/ ReturnEmpties
    \/ WriteEmptiesFile
    \/ LoadEmpties

SpecEmpties == EmptiesInit /\ [][EmptiesNext]_vars


\* --------------------------------------- claims on the list of empty tiles

Built == epc \in { "return", "written", "loaded" }

\* The addresses of the cells in empties.
EmptyAddresses == { Address(root[p]) : p \in empties }

AddressesOfLevel(l) ==
    { <<l, i, j>> : i \in 0 .. Pow(2, l) - 1, j \in 0 .. Pow(2, l) - 1 }

ChildAddresses(a) ==
    { <<a[1] + 1, 2 * a[2] + di, 2 * a[3] + dj>> : di \in 0 .. 1, dj \in 0 .. 1 }

UpwardClosed(levels) ==
    LET members == EmptyAddresses
    IN  \A l \in levels : \A a \in AddressesOfLevel(l) :
            ChildAddresses(a) \subseteq members => a \in members

\* C1 as claimed: in the set generate_list_of_empty_tiles returns, an address
\* of any level below max_level, the levels below min_level included, is a
\* member if its four children are.
C1_UpwardClosureAllLevels == Built => UpwardClosed(0 .. max_level - 1)

\* C1 as amended: in the set generate_list_of_empty_tiles returns, an address
\* of a level in min_level .. max_level - 1 is a member if its four children
\* are members.
C1_UpwardClosure == Built => UpwardClosed(min_level .. max_level - 1)

C1_Witness ==
    /\ Built
    /\ min_level < max_level - 1
    /\ \E a \in AddressesOfLevel(min_level) :
           ChildAddresses(a) \subseteq EmptyAddresses /\ a \in EmptyAddresses
    /\ \E a \in AddressesOfLevel(min_level) :
           a \notin EmptyAddresses /\ ChildAddresses(a) \cap EmptyAddresses # {}

\* The tile of an address lies wholly above +60 degrees or wholly below -60
\* degrees: row j of level l spans the Mercator y from HalfExtent minus j rows
\* down to HalfExtent minus j + 1 rows, a row being 2 HalfExtent / 2^l high.
WhollyPolar(a) ==
    LET height == (2 * HalfExtent) \div Pow(2, a[1])
        top    == HalfExtent - a[3] * height
        bottom == top - height
    IN  bottom > Lat60Y \/ top < -Lat60Y

PolarTilesEmpty ==
    Built => LET members == EmptyAddresses
             IN  \A l \in min_level .. max_level : \A a \in AddressesOfLevel(l) :
                     WhollyPolar(a) => a \in members

\* C9 as claimed: every wholly polar tile of the levels min_level .. max_level
\* is in the set, whatever the landmass, and no intersection of the landmass
\* with the polygon of a wholly polar leaf tile is ever computed.
C9_PolarNoIntersectionAtAll ==
    /\ PolarTilesEmpty
    /\ \A p \in tested \cup clipped :
           root[p].level = max_level => ~WhollyPolar(Address(root[p]))

\* C9 as amended: every wholly polar tile of the levels min_level .. max_level
\* is in the set, whatever the landmass, and the loop over the leaf tiles
\* tests no wholly polar leaf tile against the clipped landmass.
C9_PolarShortCircuit ==
    /\ PolarTilesEmpty
    /\ \A p \in tested : ~WhollyPolar(Address(root[p]))

C9_Witness ==
    /\ Built
    /\ tested # {}
    /\ \E p \in DOMAIN root :
           /\ root[p].level = max_level
           /\ WhollyPolar(Address(root[p]))
           /\ \E f \in land : intersect(f, root[p])
    /\ \E a \in AddressesOfLevel(min_level) : min_level < max_level /\ WhollyPolar(a)

\* C10: generate_empties_file writes every member of the set exactly once, as
\* the line level/i/j.png, in strictly ascending numeric order of
\* (level, i, j), and load_empties of that file gives exactly the addresses
\* of the members.
C10_FileRoundTrip ==
    epc = "loaded" =>
        /\ Len(file) = Cardinality(empties)
        /\ \A p \in empties : \E n \in DOMAIN file : file[n] = FormatLine(root[p])
        /\ \A n \in 1 .. Len(file) - 1 :
               TupleLess(ParseLine(file[n]), ParseLine(file[n + 1]))
        /\ empty_set = EmptyAddresses

C10_Witness ==
    /\ epc = "loaded"
    /\ \E a, b \in empty_set : a[1] < b[1]
    /\ \E a \in AddressesOfLevel(max_level) : a \notin empty_set
    /\ \E n \in DOMAIN file : file[n] = <<"3", "/", "7", "/", "0", ".", "p", "n", "g", "\n">>

\* ------------------------------------------------------ claims on the tree

LevelsOf(t, f) == [n \in DOMAIN f |-> t[f[n]].level]

CountAtLevel(t, f, k) == Cardinality({ n \in DOMAIN f : t[f[n]].level = k })

\* C7: the tree returned by generate_webmercator_grid(n) flattens to exactly
\* 4^k nodes at each level k in 0..n, hence (4^(n+1)-1)/3 nodes in total, and
\* holds no node deeper than n.
C7_GridNodeCounts ==
    lastOp.op = "grid" =>
        LET f == flatten(tree, <<>>)
            n == lastOp.depth
        IN  /\ \A k \in 0 .. n : CountAtLevel(tree, f, k) = Pow(4, k)
            /\ Len(f) = (Pow(4, n + 1) - 1) \div 3
            /\ \A m \in DOMAIN f : tree[f[m]].level <= n

C7_Witness ==
    /\ lastOp.op = "grid"
    /\ lastOp.depth = MaxLevel
    /\ CountAtLevel(tree, flatten(tree, <<>>), MaxLevel) = Pow(4, MaxLevel)

\* The link from the object at path p to its child in slot k is as the data
\* model says: level + 1, i' = 2i + {0,1}, j' = 2j + {0,1} with the offsets
\* (0,0), (1,0), (0,1), (1,1) for cell_0 .. cell_3, and the child's box is the
\* matching quadrant of the parent's.
LinkOk(t, p, k) ==
    LET parent == t[p]
        child  == t[Append(p, k)]
        di     == k % 2
        dj     == k \div 2
        xmid   == (parent.x0 + parent.x1) \div 2
        ymid   == (parent.y0 + parent.y1) \div 2
    IN  /\ child.level = parent.level + 1
        /\ child.i = 2 * parent.i + di
        /\ child.j = 2 * parent.j + dj
        /\ child.x0 = (IF di = 0 THEN parent.x0 ELSE xmid)
        /\ child.x1 = (IF di = 0 THEN xmid ELSE parent.x1)
        /\ child.y0 = (IF dj = 0 THEN parent.y0 ELSE ymid)
        /\ child.y1 = (IF dj = 0 THEN ymid ELSE parent.y1)
        /\ 2 * xmid = parent.x0 + parent.x1
        /\ 2 * ymid = parent.y0 + parent.y1
        /\ child.y1 < child.y0
        /\ child.x0 < child.x1

\* C8: after any sequence of subdivide and prune operations on a tree made by
\* generate_webmercator_grid, every parent-child link is as LinkOk says, every
\* node has 0 <= i, j < 2^level, and no two nodes share an address.
C8_QuadtreeStructure ==
    /\ \A q \in DOMAIN tree :
            q # <<>> =>
                /\ SubSeq(q, 1, Len(q) - 1) \in DOMAIN tree
                /\ LinkOk(tree, SubSeq(q, 1, Len(q) - 1), q[Len(q)])
    /\ \A q \in DOMAIN tree :
            /\ 0 <= tree[q].i /\ tree[q].i < Pow(2, tree[q].level)
            /\ 0 <= tree[q].j /\ tree[q].j < Pow(2, tree[q].level)
    /\ \A q1, q2 \in DOMAIN tree :
            Address(tree[q1]) = Address(tree[q2]) => q1 = q2

C8_Witness ==
    /\ lastOp.op = "prune"
    /\ \E q \in DOMAIN tree : tree[q].level = MaxLevel
    /\ \E q \in DOMAIN tree, k \in Slots :
            tree[q].level < MaxLevel - 1 /\ Append(q, k) \notin DOMAIN tree

\* ------------------------------------------------ the run of generate_tiles

Running == Cardinality({ t \in DOMAIN task : task[t].st = "running" })

Queued(kind, cells) == [n \in DOMAIN cells |-> <<kind, cells[n]>>]

Issue(tasks) ==
    [t \in Range(tasks) |-> [st |-> "queued", n |-> 0]] @@ task

\* As starmap_returned, for a map that returns once every task is taken.
StarmapAllTaken == queue = <<>>

\* pool.starmap blocks until every task of the map has returned.
starmap_returned ==
    queue = <<>> /\ \A t \in DOMAIN task : task[t].st = "done"

\* What no step of generate_tiles changes.
tilesFrame ==
    <<treeVars, argVars, auxVars, epc, all_cells, intermediate_cells, part, level,
      empties, clipped, tested, file, lastNode, calls>>

\* What no step of a worker changes.
workerFrame == <<tilesFrame, root, empty_set, dir_exists, tile_cells, mlevel, levelsDone, gpc>>

\* The file of empty tiles generate_empties_file wrote for the same levels and
\* some landmass is there; the tile directory exists or not.
TilesInit ==
    /\ max_level \in TileLevels
    /\ min_level \in 0 .. max_level
    /\ land \in LandInputs
    /\ root = generate_webmercator_grid(max_level)
    /\ file = EmptiesFile(root, generate_list_of_empty_tiles(root, land, min_level, max_level))
    /\ dir_exists \in BOOLEAN
    /\ gpc = "begin"
    /\ epc = "off" /\ part = 0 /\ level = 0
    /\ all_cells = <<>> /\ intermediate_cells = <<>>
    /\ empties = {} /\ clipped = {} /\ tested = {}
    /\ empty_set = {}
    /\ tile_cells = <<>> /\ queue = <<>> /\ task = <<>>
    /\ fs = {} /\ written = <<>> /\ readPaths = {} /\ loaded = {}
    /\ mlevel = 0 /\ levelsDone = <<>>
    /\ lastNode = <<>> /\ calls = 0
    /\ NoTree
    /\ NoAux

\* generate_tiles up to the first starmap: the exit if the directory exists,
\* else the grid, the pruning, all_cells, the blocks and the leaf tasks.
GenerateTilesBegin ==
    /\ gpc = "begin"
    /\ IF PathExists(dir_exists)
       THEN /\ gpc' = "exit"
            /\ UNCHANGED <<root, empty_set, dir_exists, tile_cells, queue, task>>
       ELSE /\ dir_exists' = TRUE
            /\ empty_set' = load_empties(file)
            /\ root' = inner_prune_empties(generate_webmercator_grid(max_level), <<>>, empty_set')
            /\ tile_cells' = AllCells(root', min_level)
            /\ queue' = Queued("leaf", BlockLevelCells(root', BlockLevel(min_level, max_level)))
            /\ task' = Issue(queue')
            /\ gpc' = "leaf"
    /\ UNCHANGED <<tilesFrame, fs, written, readPaths, loaded, mlevel, levelsDone>>

\* A worker of Pool(2) takes the next block: generate_mercator_tile_grid up to
\* node_list, or its return for a block the checker knows as empty.
LeafTaskStart ==
    /\ gpc = "leaf"
    /\ queue # <<>>
    /\ Running < LeafPoolSize
    /\ LET t == Head(queue)
       IN  IF SkipsBlock(empty_set, root[t[2]])
           THEN /\ task' = [task EXCEPT ![t] = [st |-> "done", n |-> 0]]
                /\ UNCHANGED loaded
           ELSE /\ task' = [task EXCEPT ![t] = [st |-> "running", n |-> 0]]
                /\ loaded' = loaded \cup { Address(root[t[2]]) }
    /\ queue' = Tail(queue)
    /\ UNCHANGED <<workerFrame, fs, written, readPaths>>

\* _generate_tile_from_data writes the next file of the block: the png of a
\* leaf, then its hgt.pgm, leaf after leaf of node_list.
LeafWrite(t) ==
    /\ t[1] = "leaf"
    /\ task[t].st = "running"
    /\ LET node_list == NodeList(root, t[2], empty_set, max_level)
           n         == task[t].n
       IN  /\ n < 2 * Len(node_list)
           /\ LET path == TilePath(root[node_list[(n \div 2) + 1]],
                                   IF n % 2 = 0 THEN "png" ELSE "hgt.pgm")
              IN  /\ fs' = fs \cup { path }
                  /\ written' = Log(written, path, t)
           /\ task' = [task EXCEPT ![t].n = n + 1]
    /\ UNCHANGED <<workerFrame, queue, readPaths, loaded>>

\* generate_mercator_tile_grid returns.
LeafTaskReturn(t) ==
    /\ t[1] = "leaf"
    /\ task[t].st = "running"
    /\ task[t].n = 2 * Len(NodeList(root, t[2], empty_set, max_level))
    /\ task' = [task EXCEPT ![t].st = "done"]
    /\ UNCHANGED <<workerFrame, queue, fs, written, readPaths, loaded>>

\* As InRange, for a range that stops one level above min_level.
InRangeAbove(l) == l > min_level

\* level in range(maxlevel, minlevel - 1, -1), for a level l <= maxlevel
InRange(l) == l >= min_level

\* The loop of hierarchically_merge_lower_level_cells comes to level l: the
\* starmap of its cells, or the end of the loop below min_level.
EnterLevel(l) ==
    IF InRange(l)
    THEN /\ gpc' = "merge"
         /\ mlevel' = l
         /\ levelsDone' = Append(levelsDone, l)
         /\ queue' = Queued("merge", CellsOfLevel(root, tile_cells, l))
         /\ task' = Issue(queue')
    ELSE /\ gpc' = "done"
         /\ UNCHANGED <<mlevel, levelsDone, queue, task>>

\* The starmap of the blocks returns; the merge loop starts at max_level - 1.
LeafPhaseReturns ==
    /\ gpc = "leaf"
    /\ starmap_returned
    /\ EnterLevel(max_level - 1)
    /\ UNCHANGED <<tilesFrame, root, empty_set, dir_exists, tile_cells, fs, written, readPaths, loaded>>

\* The starmap of a merge level returns; the loop goes one level up.
MergeLevelReturns ==
    /\ gpc = "merge"
    /\ starmap_returned
    /\ EnterLevel(mlevel - 1)
    /\ UNCHANGED <<tilesFrame, root, empty_set, dir_exists, tile_cells, fs, written, readPaths, loaded>>

\* A worker of Pool(6) takes the next cell of the level.
MergeTaskStart ==
    /\ gpc = "merge"
    /\ queue # <<>>
    /\ Running < MergePoolSize
    /\ task' = [task EXCEPT ![Head(queue)] = [st |-> "running", n |-> 0]]
    /\ queue' = Tail(queue)
    /\ UNCHANGED <<workerFrame, fs, written, readPaths, loaded>>

\* The next _get_heightdata of _generate_merged_cell_from_subcells.
MergeRead(t) ==
    /\ t[1] = "merge"
    /\ task[t].st = "running"
    /\ task[t].n < MergeReadCount
    /\ readPaths' = readPaths \cup { HeightReads(root[t[2]])[task[t].n + 1] }
    /\ task' = [task EXCEPT ![t].n = @ + 1]
    /\ UNCHANGED <<workerFrame, queue, fs, written, loaded>>

\* _save_tile writes the png of the merged cell, then the hgt.pgm is written.
MergeWrite(t) ==
    /\ t[1] = "merge"
    /\ task[t].st = "running"
    /\ task[t].n \in { MergeReadCount, MergeReadCount + 1 }
    /\ LET path == TilePath(root[t[2]],
                            IF task[t].n = MergeReadCount THEN "png" ELSE "hgt.pgm")
       IN  /\ fs' = fs \cup { path }
           /\ written' = Log(written, path, t)
    /\ task' = [task EXCEPT ![t].n = @ + 1]
    /\ UNCHANGED <<workerFrame, queue, readPaths, loaded>>

\* _generate_merged_cell_from_subcells returns.
MergeTaskReturn(t) ==
    /\ t[1] = "merge"
    /\ task[t].st = "running"
    /\ task[t].n = MergeReadCount + 2
    /\ task' = [task EXCEPT ![t].st = "done"]
    /\ UNCHANGED <<workerFrame, queue, fs, written, readPaths, loaded>>

TilesNext ==
    \/ GenerateTilesBegin
    \/ LeafTaskStart
    \/ \E t \in DOMAIN task : LeafWrite(t)
    \/ \E t \in DOMAIN task : LeafTaskReturn(t)
    \/ LeafPhaseReturns
    \/ MergeTaskStart
    \/ \E t \in DOMAIN task : MergeRead(t)
    \/ \E t \in DOMAIN task : MergeWrite(t)
    \/ \E t \in DOMAIN task : MergeTaskReturn(t)
    \/ MergeLevelReturns

SpecTiles == TilesInit /\ [][TilesNext]_vars

\* ------------------------------------------------- claims on generate_tiles

Started(t) == task[t].st # "queued"

Finished(t) == task[t].st = "done"

LeafTasks == { t \in DOMAIN task : t[1] = "leaf" }

MergeTasks == { t \in DOMAIN task : t[1] = "merge" }

TaskLevel(t) == root[t[2]].level

\* C2: no merge task starts before every leaf-block task has returned; the
\* merge loop takes the levels max_level - 1 down to min_level in strictly
\* descending order, each once, with one task for every cell of the level; and
\* no merge task of a level starts before every merge task of the levels
\* above it has written its two files and returned.
C2_PhaseAndLevelBarrier ==
    /\ \A t \in MergeTasks : Started(t) =>
           /\ \A b \in LeafTasks : Finished(b)
           /\ \A u \in MergeTasks : TaskLevel(u) > TaskLevel(t) =>
                  /\ Finished(u)
                  /\ TilePath(root[u[2]], "png") \in fs
                  /\ TilePath(root[u[2]], "hgt.pgm") \in fs
    /\ \A n \in DOMAIN levelsDone : levelsDone[n] = max_level - n
    /\ \A n \in DOMAIN tile_cells :
           root[tile_cells[n]].level \in Range(levelsDone)
               => <<"merge", tile_cells[n]>> \in MergeTasks
    /\ gpc = "done" => Len(levelsDone) = max_level - min_level

C2_Witness ==
    /\ gpc = "merge"
    /\ Len(levelsDone) >= 2
    /\ Cardinality(LeafTasks) >= 2
    /\ \E t, u \in MergeTasks :
           /\ TaskLevel(t) = mlevel /\ task[t].st = "running"
           /\ TaskLevel(u) = mlevel + 1 /\ Finished(u)

\* The addresses some file of the tile directory belongs to.
Rendered == { <<f[1], f[2], f[3]>> : f \in fs }

\* Both artifacts of an address are there.
Complete(a) ==
    <<a[1], a[2], a[3], "png">> \in fs /\ <<a[1], a[2], a[3], "hgt.pgm">> \in fs

\* The addresses of the levels min_level .. max_level outside the set.
NonEmptyAddresses ==
    { a \in UNION { AddressesOfLevel(l) : l \in min_level .. max_level } :
        a \notin empty_set }

\* C3 as claimed: for any min_level <= max_level, when generate_tiles is done
\* the addresses with artifacts are exactly the addresses of the levels
\* min_level .. max_level outside the EmptinessSet, each with both artifacts.
C3_ExactPyramidAnyLevels ==
    gpc = "done" =>
        /\ Rendered = NonEmptyAddresses
        /\ \A a \in Rendered : Complete(a)

\* C3 as amended: for max_level at least the floor of the block level, when
\* generate_tiles is done the addresses with artifacts are exactly the
\* addresses of the levels min_level .. max_level outside the EmptinessSet,
\* and the root address as well if min_level is 0; each has both artifacts.
C3_ExactPyramid ==
    (gpc = "done" /\ max_level >= BlockFloor) =>
        /\ Rendered = NonEmptyAddresses
                        \cup (IF min_level = 0 THEN { <<0, 0, 0>> } ELSE {})
        /\ \A a \in Rendered : Complete(a)

C3_Witness ==
    /\ gpc = "done"
    /\ max_level >= BlockFloor
    /\ min_level < max_level
    /\ \E a \in AddressesOfLevel(max_level) : a \in Rendered
    /\ \E a \in AddressesOfLevel(max_level - 1) : a \in Rendered
    /\ \E a \in AddressesOfLevel(max_level) : a \in empty_set /\ a \notin Rendered
    /\ \E a \in AddressesOfLevel(max_level - 1) :
           a \notin empty_set /\ \E c \in ChildAddresses(a) : c \in empty_set

\* C4: every file of the tile directory is written once, by one task.
C4_DisjointOutputPaths ==
    /\ DOMAIN written = fs
    /\ \A f \in DOMAIN written : Len(written[f]) = 1

C4_Witness ==
    /\ gpc = "done"
    /\ \E f, g \in fs :
           /\ written[f][1][1] = "leaf" /\ written[g][1][1] = "leaf"
           /\ written[f][1] # written[g][1]
    /\ \E f \in fs : written[f][1][1] = "merge"

\* C5: a height thumbnail a merge task has asked for was written by a task
\* that had returned before, or is never written: in no state has a file that
\* was read a writer that is still at work.
C5_ThumbnailsReadOnly ==
    \A f \in readPaths :
        f \in DOMAIN written => \A n \in DOMAIN written[f] : Finished(written[f][n])

C5_Witness ==
    /\ gpc = "done"
    /\ \E f \in readPaths : f \in DOMAIN written /\ written[f][1][1] = "leaf"
    /\ \E f \in readPaths : f \in DOMAIN written /\ written[f][1][1] = "merge"
    /\ \E f \in readPaths : f \notin DOMAIN written /\ f[3] \in 0 .. Pow(2, f[1]) - 1
    /\ \E f \in readPaths : f[3] = -1

\* ------------------------------------ calls of generate_mercator_tile_grid

\* The grid of max_level is there unpruned and the checker is loaded from the
\* file of empty tiles of the same levels; the tile directory is empty.
LeafInit ==
    /\ max_level \in TileLevels
    /\ min_level \in 0 .. max_level
    /\ land \in LandInputs
    /\ root = generate_webmercator_grid(max_level)
    /\ file = EmptiesFile(root, generate_list_of_empty_tiles(root, land, min_level, max_level))
    /\ empty_set = load_empties(file)
    /\ dir_exists = TRUE
    /\ gpc = "calls"
    /\ epc = "off" /\ part = 0 /\ level = 0
    /\ all_cells = <<>> /\ intermediate_cells = <<>>
    /\ empties = {} /\ clipped = {} /\ tested = {}
    /\ tile_cells = <<>> /\ queue = <<>> /\ task = <<>>
    /\ fs = {} /\ written = <<>> /\ readPaths = {} /\ loaded = {}
    /\ mlevel = 0 /\ levelsDone = <<>>
    /\ lastNode = <<>> /\ calls = 0
    /\ NoTree
    /\ NoAux

\* generate_mercator_tile_grid(node, tile_directory, checker, max_level) for
\* a node of the block level.
CallTileGrid(p) ==
    /\ gpc = "calls"
    /\ calls < MaxCalls
    /\ root[p].level = BlockLevel(min_level, max_level)
    /\ LET r == generate_mercator_tile_grid(root, p, empty_set, max_level, fs, loaded)
       IN  fs' = r.fs /\ loaded' = r.loaded
    /\ lastNode' = p
    /\ calls' = calls + 1
    /\ UNCHANGED <<treeVars, argVars, empVars, auxVars, gpc, dir_exists, tile_cells, queue, task, written, readPaths, mlevel, levelsDone>>

LeafNext == \E p \in DOMAIN root : CallTileGrid(p)

SpecLeaf == LeafInit /\ [][LeafNext]_vars

\* C6: a call of generate_mercator_tile_grid for a block whose address is in
\* the EmptinessSet writes no file and loads no elevation data: the tile
\* directory and the loaded blocks are after the call what they were before,
\* at the first call and at every repetition.
C6_EmptyBlockNoEffect ==
    [][(calls' # calls /\ EmptyChecker(empty_set, root[lastNode']))
          => (fs' = fs /\ loaded' = loaded)]_vars

C6_Witness ==
    /\ calls = MaxCalls
    /\ EmptyChecker(empty_set, root[lastNode])
    /\ ~WhollyPolar(Address(root[lastNode]))
    /\ fs # {}
    /\ Address(root[lastNode]) \notin loaded

\* --------------------------------------------------------- the command line

\* What an existing tile directory holds, and an existing archive directory.
PreFiles == { {}, { <<0, 0, 0, "png">>, <<0, 0, 0, "hgt.pgm">> } }

PreArchive == { <<>>, (<<"archive", <<"old">>, "contents">> :> <<>>) }

\* The landmass the file of empty tiles was made of: no island or one.
MainLand == { l \in LandInputs : Cardinality(l) <= 1 }

\* The action generate-tiles or generate-archive is asked for, with some
\* levels; the file of empty tiles is there, the output paths exist or not.
MainInit ==
    /\ cmd \in { "generate-tiles", "generate-archive" }
    /\ max_level \in TileLevels
    /\ min_level \in (IF cmd = "generate-tiles" THEN TileLevels ELSE { 0 })
    /\ land \in MainLand
    /\ root = RootOnly
    /\ file = LET grid == generate_webmercator_grid(max_level)
              IN  EmptiesFile(grid, generate_list_of_empty_tiles(grid, land, min_level, max_level))
    /\ dir_exists \in (IF cmd = "generate-tiles" THEN BOOLEAN ELSE { FALSE })
    /\ fs \in (IF dir_exists THEN PreFiles ELSE { {} })
    /\ archive_exists \in (IF cmd = "generate-archive" THEN BOOLEAN ELSE { FALSE })
    /\ archive_files \in (IF archive_exists THEN PreArchive ELSE { <<>> })
    /\ pre = [dir_exists |-> dir_exists, fs |-> fs,
              archive_exists |-> archive_exists, archive_files |-> archive_files]
    /\ doc = <<>>
    /\ NoMerge
    /\ gpc = "main"
    /\ epc = "off" /\ part = 0 /\ level = 0
    /\ all_cells = <<>> /\ intermediate_cells = <<>>
    /\ empties = {} /\ clipped = {} /\ tested = {}
    /\ empty_set = {}
    /\ tile_cells = <<>> /\ queue = <<>> /\ task = <<>>
    /\ written = <<>> /\ readPaths = {} /\ loaded = {}
    /\ mlevel = 0 /\ levelsDone = <<>>
    /\ lastNode = <<>> /\ calls = 0
    /\ NoTree

\* _generate_tiles: the exit for a max_level below 7, else generate_tiles is
\* called.
MainGenerateTiles ==
    /\ gpc = "main"
    /\ cmd = "generate-tiles"
    /\ gpc' = (IF max_level < BlockFloor THEN "exit" ELSE "begin")
    /\ UNCHANGED <<treeVars, argVars, empVars, auxVars, dir_exists, tile_cells, queue, task, fs, written, readPaths, loaded, mlevel, levelsDone, lastNode, calls>>

\* _generate_archive: create_archive_commands(max_level), the exit if the
\* archive path exists, else the files of the packages and the commands.
MainGenerateArchive ==
    /\ gpc = "main"
    /\ cmd = "generate-archive"
    /\ IF PathExists(archive_exists)
       THEN /\ gpc' = "exit"
            /\ UNCHANGED <<archive_exists, archive_files>>
       ELSE /\ archive_exists' = TRUE
            /\ archive_files' = ArchiveFiles(create_packages(max_level, file)) @@ archive_files
            /\ gpc' = "done"
    /\ UNCHANGED <<treeVars, argVars, empVars, cmd, pre, doc, merged, data, dir_exists, tile_cells, queue, task, fs, written, readPaths, loaded, mlevel, levelsDone, lastNode, calls>>

MainNext ==
    \/ MainGenerateTiles
    \/ MainGenerateArchive
    \/ TilesNext

SpecMain == MainInit /\ [][MainNext]_vars

\* C11: when the tile directory exists as generate-tiles starts, the run ends
\* in the exit with status 1 with no grid built, no checker loaded and no
\* task handed to a pool, and the files under the directory stay what they
\* were; when the archive path exists as generate-archive starts, the run ends
\* in the exit with status 1 and no file is written.
C11_OutputCollision ==
    /\ (cmd = "generate-tiles" /\ pre.dir_exists /\ gpc # "main") =>
           /\ gpc \in { "begin", "exit" }
           /\ fs = pre.fs
           /\ root = RootOnly /\ empty_set = {} /\ tile_cells = <<>>
           /\ task = <<>> /\ queue = <<>> /\ loaded = {} /\ readPaths = {}
    /\ (cmd = "generate-archive" /\ pre.archive_exists /\ gpc # "main") =>
           /\ gpc = "exit"
           /\ archive_files = pre.archive_files

C11_Witness ==
    /\ cmd = "generate-tiles"
    /\ gpc = "exit"
    /\ max_level >= BlockFloor
    /\ pre.dir_exists
    /\ fs # {}

\* C12: a generate-tiles run whose max_level is below 7, or whose min_level
\* is above its max_level, ends in the exit with status 1 before any work:
\* the output directory is not created and no task is handed to a pool.
C12_ConfigurationError ==
    (cmd = "generate-tiles" /\ gpc # "main"
        /\ (max_level < BlockFloor \/ min_level > max_level)) =>
       /\ gpc \in { "begin", "exit" }
       /\ dir_exists = pre.dir_exists
       /\ task = <<>> /\ queue = <<>>

\* ------------------------------------------------ the run of generate-empties

\* What the output file holds before the run.
OldFile == <<FormatLine(RootCell)>>

GenerateEmptiesInit ==
    /\ cmd = "generate-empties"
    /\ max_level \in TileLevels
    /\ min_level \in 0 .. max_level
    /\ doc \in Documents
    /\ file \in { <<>>, OldFile }
    /\ land = {}
    /\ root = RootOnly
    /\ all_cells = <<>>
    /\ intermediate_cells = <<>>
    /\ epc = "parse"
    /\ part = 0
    /\ level = 0
    /\ empties = {}
    /\ clipped = {}
    /\ tested = {}
    /\ empty_set = {}
    /\ archive_exists = FALSE /\ archive_files = <<>> /\ pre = <<>>
    /\ NoMerge
    /\ NoTree
    /\ NoTiles

\* parser.parse_args(): argparse.FileType('wb') opens the output file, which
\* leaves it empty.
ParseArguments ==
    /\ epc = "parse"
    /\ file' = <<>>
    /\ epc' = "load"
    /\ UNCHANGED <<root, all_cells, intermediate_cells, part, level, empties, clipped, tested, empty_set, argVars, treeVars, tileVars, auxVars>>

\* generate_list_of_empty_tiles up to the loop over intermediate_cells: the
\* input is loaded and filtered, the grid and the lists of cells are built.
LoadLandmass ==
    /\ epc = "load"
    /\ IF FilterRaises(doc)
       THEN /\ epc' = "error"
            /\ UNCHANGED <<land, root, all_cells, intermediate_cells, part>>
       ELSE /\ land' = Polygons(doc)
            /\ root' = generate_webmercator_grid(max_level)
            /\ all_cells' = AllCells(root', min_level)
            /\ intermediate_cells' = IntermediateCells(root', min_level, max_level)
            /\ part' = 1
            /\ epc' = "partition"
    /\ UNCHANGED <<min_level, max_level, level, empties, clipped, tested, file, empty_set, treeVars, tileVars, auxVars>>

GenerateEmptiesNext ==
    \/ ParseArguments
    \/ LoadLandmass
    \/ ClassifyPartition
    \/ SweepOneLevel
    \/ ReturnEmpties
    \/ WriteEmptiesFile

SpecGenerateEmpties == GenerateEmptiesInit /\ [][GenerateEmptiesNext]_vars

\* The features of the input whose geometry is a Polygon or a MultiPolygon.
PolygonFeatures(j) ==
    { n \in DOMAIN j.features :
        j.features[n].geometry.type \in { PolygonType, MultiPolygonType } }

\* The input is no FeatureCollection, or has a feature without a geometry.
Unreadable(j) ==
    \/ j.type # "FeatureCollection"
    \/ \E n \in DOMAIN j.features : j.features[n].geometry = NoneGeometry

\* The input is no FeatureCollection or Feature of Polygons and MultiPolygons.
Offending(j) ==
    IF j.type = "FeatureCollection"
    THEN PolygonFeatures(j) # DOMAIN j.features
    ELSE j.geometry.type \notin { PolygonType, MultiPolygonType }

Loaded == epc \notin { "parse", "load" }

C14_BothArtifactsOrNeither ==
    \A lvl \in TileLevels :
        \A a \in AddressesOfLevel(lvl) :
            (<<a[1], a[2], a[3], "png">> \in fs) <=> (<<a[1], a[2], a[3], "hgt.pgm">> \in fs)

\* ------------------------------------------------------- one call of a merge

\* _generate_merged_cell_from_subcells is called for a cell, with some of the
\* thumbnails around it on disk.
MergeInit ==
    /\ merged \in MergeCells
    /\ fs \in SubsetsUpTo(ThumbsAround(merged), MaxThumbs)
    /\ pre = [fs |-> fs]
    /\ data = <<>>
    /\ gpc = "call"
    /\ cmd = "none" /\ archive_exists = FALSE /\ archive_files = <<>> /\ doc = <<>>
    /\ dir_exists = TRUE
    /\ tile_cells = <<>> /\ queue = <<>> /\ task = <<>>
    /\ written = <<>> /\ readPaths = {} /\ loaded = {}
    /\ mlevel = 0 /\ levelsDone = <<>>
    /\ lastNode = <<>> /\ calls = 0
    /\ NoArgs
    /\ NoEmpties
    /\ NoTree

mergeFrame ==
    <<treeVars, argVars, empVars, cmd, archive_exists, archive_files, pre, doc, merged,
      dir_exists, tile_cells, queue, task, loaded, mlevel, levelsDone, lastNode, calls>>

\* The sixteen reads: data is filled from the thumbnails of the level below.
MergeAssemble ==
    /\ gpc = "call"
    /\ data' = MergedData(fs, merged)
    /\ readPaths' = readPaths \cup Range(HeightReads(merged))
    /\ gpc' = "assembled"
    /\ UNCHANGED <<mergeFrame, fs, written>>

\* The png and the hgt.pgm of the cell are written.
MergeSave ==
    /\ gpc = "assembled"
    /\ fs' = fs \cup { TilePath(merged, "png"), TilePath(merged, "hgt.pgm") }
    /\ written' = Log(Log(written, TilePath(merged, "png"), merged),
                      TilePath(merged, "hgt.pgm"), merged)
    /\ gpc' = "returned"
    /\ UNCHANGED <<mergeFrame, data, readPaths>>

MergeNext ==
    \/ MergeAssemble
    \/ MergeSave

SpecMerge == MergeInit /\ [][MergeNext]_vars

Assembled == gpc \in { "assembled", "returned" }

\* The side of the mosaic of the thumbnails of the level below the cell.
MosaicSide == ThumbSize * Pow(2, merged.level + 1)

InMosaic(x) == 0 <= x /\ x < MosaicSide

\* The place in the mosaic of the place p of data: the window starts margin
\* samples before the first sample of the child (2i, 2j).
MosaicRow(p) == ThumbSize * 2 * merged.j + p[1] - Margin

MosaicColumn(p) == ThumbSize * 2 * merged.i + p[2] - Margin

\* The mosaic: thumbnail (a, b) is at rows 128b .. 128b+127 and columns
\* 128a .. 128a+127; a thumbnail that was never written counts as zeros.
Mosaic(row, column) ==
    LET a == column \div ThumbSize
        b == row \div ThumbSize
    IN  IF <<merged.level + 1, a, b, "hgt.pgm">> \in pre.fs
        THEN Sample(merged.level + 1, a, b, row % ThumbSize, column % ThumbSize)
        ELSE 0

\* C15: the array data of a merge is the window of the mosaic of the level
\* below, from margin samples before the four children to margin samples
\* after them, wherever the window lies within the mosaic.
C15_MergeBufferLayout ==
    Assembled =>
        \A p \in BufferIndex :
            (InMosaic(MosaicRow(p)) /\ InMosaic(MosaicColumn(p))) =>
                data[p] = Mosaic(MosaicRow(p), MosaicColumn(p))

C15_Witness ==
    /\ Assembled
    /\ \E p \in BufferIndex :
          /\ p[1] < Margin
          /\ InMosaic(MosaicRow(p)) /\ InMosaic(MosaicColumn(p))
          /\ data[p] # 0

\* The thumbnail the place p of data is taken from, if the window is taken
\* without regard to the bounds of the mosaic.
ThumbOf(p) ==
    <<merged.level + 1, MosaicColumn(p) \div ThumbSize, MosaicRow(p) \div ThumbSize, "hgt.pgm">>

\* C16 as stated: a place of data whose thumbnail has a column index or a
\* row index outside the grid of the level below, or was never written, is
\* zero.
C16_OutsideOrMissingIsZero ==
    Assembled =>
        \A p \in BufferIndex :
            (~InMosaic(MosaicColumn(p)) \/ ~InMosaic(MosaicRow(p)) \/ ThumbOf(p) \notin pre.fs) =>
                data[p] = 0

\* C16, amended: a place of data whose thumbnail has a row index outside the
\* grid is zero; a place whose thumbnail has a column index outside the grid
\* holds the sample of the mosaic one turn around the globe, zero only if
\* that thumbnail was never written; a place whose thumbnail is inside the
\* grid and was never written is zero.
C16_MissingNeighbours ==
    Assembled =>
        \A p \in BufferIndex :
            /\ ~InMosaic(MosaicRow(p)) => data[p] = 0
            /\ (InMosaic(MosaicRow(p)) /\ ~InMosaic(MosaicColumn(p))) =>
                  data[p] = Mosaic(MosaicRow(p), MosaicColumn(p) % MosaicSide)
            /\ (InMosaic(MosaicRow(p)) /\ InMosaic(MosaicColumn(p)) /\ ThumbOf(p) \notin pre.fs) =>
                  data[p] = 0

C16_Witness ==
    /\ Assembled
    /\ merged.level = MaxMergeLevel
    /\ \E p \in BufferIndex :
          /\ InMosaic(MosaicRow(p)) /\ ~InMosaic(MosaicColumn(p))
          /\ data[p] # 0
    /\ \E p \in BufferIndex : ~InMosaic(MosaicRow(p))

\* The thumbnails of the children of the cells around the merged cell, itself
\* included, by the columns that count as around it.
ChildThumbs(columns) ==
    { <<merged.level + 1, 2 * a + da, 2 * b + db, "hgt.pgm">> :
        a \in columns, b \in merged.j - 1 .. merged.j + 1, da \in 0 .. 1, db \in 0 .. 1 }

\* The files a call has opened: those it asked for that were there.
Opened == readPaths \cap pre.fs

\* What a call may do to files, given the thumbnails it may open.
MergeTouches(thumbs) ==
    /\ loaded = {}
    /\ Opened \subseteq thumbs
    /\ fs \ pre.fs \subseteq { TilePath(merged, "png"), TilePath(merged, "hgt.pgm") }
    /\ pre.fs \subseteq fs
    /\ gpc = "returned" =>
          /\ DOMAIN written = { TilePath(merged, "png"), TilePath(merged, "hgt.pgm") }
          /\ DOMAIN written \subseteq fs

\* C17 as stated: a merge loads no elevation data, opens only thumbnails of
\* the level below that belong to children of the cell or of the cells of
\* columns i-1 .. i+1 and rows j-1 .. j+1 of its level, and writes only its
\* own two files.
C17_ReadsChildrenOfNeighbours ==
    MergeTouches(ChildThumbs(merged.i - 1 .. merged.i + 1))

\* C17, amended: the same, with the columns taken around the globe, so that
\* column 2^L - 1 is next to column 0.
C17_ThumbnailsOnly ==
    MergeTouches(ChildThumbs({ a % Pow(2, merged.level) : a \in merged.i - 1 .. merged.i + 1 }))

C17_Witness ==
    /\ gpc = "returned"
    /\ merged.level = MaxMergeLevel
    /\ merged.i = 0
    /\ \E f \in Opened : f[2] = Pow(2, merged.level + 1) - 1

\* ------------------------------------------- claims on the sweep of levels

\* The address of level l whose tile the tile of address d lies within.
AncestorAt(d, l) ==
    <<l, d[2] \div Pow(2, d[1] - l), d[3] \div Pow(2, d[1] - l)>>

\* In the returned set an address below max_level is a member exactly if its
\* four children are; and the descendants of a member are members, that is,
\* an address down to max_level that is no member has no member above it.
SweepClassified ==
    LET members == EmptyAddresses
    IN  /\ \A l \in min_level .. max_level - 1 : \A a \in AddressesOfLevel(l) :
               a \in members <=> ChildAddresses(a) \subseteq members
        /\ \A l \in 1 .. max_level : \A d \in AddressesOfLevel(l) \ members :
               \A m \in 0 .. l - 1 : AncestorAt(d, m) \notin members

\* A step changes the membership of an address only by adding it, a leaf in
\* the loop over the partition cells and an address of level l in the round
\* of the sweep for level l; the rounds go down one level at a time and the
\* leaf loop is not entered again, so a level is decided after the levels
\* below it have their final members.
SweepInOrder ==
    LET before == EmptyAddresses
        after  == EmptyAddresses'
    IN  /\ before \subseteq after
        /\ \A a \in after \ before :
               \/ a[1] = max_level /\ epc = "partition"
               \/ a[1] < max_level /\ epc = "sweep" /\ level = a[1]
        /\ (epc = "sweep" /\ epc' = "sweep") => level' = level - 1
        /\ (epc = "partition" /\ epc' # "partition") =>
               (epc' = "sweep" /\ level' = max_level - 1)
        /\ (epc # "partition") => (epc' # "partition")

\* C18: in the set generate_list_of_empty_tiles returns, an address of a
\* level in min_level .. max_level - 1 is a member if and only if its four
\* children are members, every descendant down to max_level of a member is a
\* member, and the members of a level are decided after those of the level
\* below are final.
C18_SweepClassification ==
    /\ [](Built => SweepClassified)
    /\ [][SweepInOrder]_vars

C18_Witness ==
    /\ Built
    /\ max_level - min_level >= 2
    /\ \E a \in AddressesOfLevel(min_level) : a \in EmptyAddresses
    /\ \E a \in AddressesOfLevel(min_level) :
           a \notin EmptyAddresses /\ Cardinality(ChildAddresses(a) \cap EmptyAddresses) = 3

\* ------------------------------------------- one operation on a given tree

OpsInit ==
    /\ tree \in StartTrees
    /\ lastOp = [op |-> "new"]
    /\ NoArgs
    /\ NoEmpties
    /\ NoTiles
    /\ NoAux

opsFrame == <<argVars, empVars, tileVars, auxVars>>

\* root.prune_children(condition)
OpsPrune(c) ==
    /\ lastOp.op = "new"
    /\ LET run == prune_run(StartRun(tree), <<>>, c)
       IN  /\ tree' = run.tree
           /\ lastOp' = [op |-> "prune_children", condition |-> c, before |-> tree,
                         tested |-> run.tested, count |-> run.count]
    /\ UNCHANGED opsFrame

\* pc = _inner_prune_empties(root, checker)
OpsInnerPrune(c) ==
    /\ lastOp.op = "new"
    /\ LET run == prune_run(StartRun(tree), <<>>, c)
       IN  /\ tree' = inner_prune_empties(tree, <<>>, c.set)
           /\ lastOp' = [op |-> "_inner_prune_empties", condition |-> c, before |-> tree,
                         tested |-> run.tested, count |-> run.count]
    /\ UNCHANGED opsFrame

\* root.conditional_recursive_subdivide(condition, max_depth)
OpsSubdivide(c, d) ==
    /\ lastOp.op = "new"
    /\ tree' = conditional_recursive_subdivide(tree, <<>>, c, d)
    /\ lastOp' = [op |-> "subdivide", condition |-> c, max_depth |-> d, before |-> tree]
    /\ UNCHANGED opsFrame

OpsNext ==
    \/ \E c \in OpsConditions \cup OpsCheckers : OpsPrune(c)
    \/ \E c \in OpsCheckers : OpsInnerPrune(c)
    \/ \E c \in OpsConditions, d \in 0 .. OpsDepth + 1 : OpsSubdivide(c, d)

SpecOps == OpsInit /\ [][OpsNext]_vars

Pruned == lastOp.op \in { "prune_children", "_inner_prune_empties" }

\* The condition of the last operation holds of the object that was at path
\* p before it.
Held(p) == Condition(lastOp.condition, lastOp.before[p])

\* Neither the object at p nor an ancestor of it below the root satisfied
\* the condition.
Kept(p) == \A m \in 1 .. Len(p) : ~Held(SubSeq(p, 1, m))

Parent(p) == SubSeq(p, 1, Len(p) - 1)

\* C19: after prune_children(condition), and after _inner_prune_empties with
\* an EmptyChecker, the tree holds the root and the objects that neither
\* satisfied the condition themselves nor had an ancestor other than the
\* root that did, each as it was; the condition was not called for the root
\* nor for an object below a detached one; and the count is the number of
\* detached links.
C19_PruningSemantics ==
    Pruned =>
        LET remaining == { p \in DOMAIN lastOp.before : Kept(p) }
            links     == { p \in DOMAIN lastOp.before \ { <<>> } : Kept(Parent(p)) }
        IN  /\ DOMAIN tree = remaining
            /\ <<>> \in DOMAIN tree
            /\ \A p \in remaining : tree[p] = lastOp.before[p]
            /\ tree = prune_children(lastOp.before, <<>>, lastOp.condition)
            /\ <<>> \notin lastOp.tested
            /\ lastOp.tested = links
            /\ lastOp.count = Cardinality({ p \in links : Held(p) })

C19_Witness ==
    /\ lastOp.op = "_inner_prune_empties"
    /\ Held(<<>>)
    /\ lastOp.count >= 2
    /\ \E p \in DOMAIN lastOp.before : Held(p) /\ Len(p) >= 2 /\ ~Kept(Parent(p))
    /\ \E p \in DOMAIN tree : Len(p) >= 2

Subdivided == lastOp.op = "subdivide"

\* The recursion of the last subdivide reached the object at path p: the
\* condition held of it and of every object above it below the root.
Descended(p) == \A m \in 1 .. Len(p) : Condition(lastOp.condition, CellAt(SubSeq(p, 1, m)))

\* The objects the last subdivide ran its loop over the four slots for.
Visited ==
    { p \in DOMAIN tree : Descended(p) /\ Len(p) < lastOp.max_depth }

\* C20 as stated: after subdivide(condition, max_depth) every object that was
\* visited with a level below max_depth has all four children in the tree.
C20_AllQuadrantsPresent ==
    Subdivided =>
        \A p \in Visited : \A k \in Slots : Append(p, k) \in DOMAIN tree

\* C20, amended: after subdivide(condition, max_depth) every object that was
\* visited with a level below max_depth has those of its four children in
\* the tree that the condition holds of or that were there before; a child the
\* condition does not hold of is not created, and one that was there stays as
\* it was, with all below it; the recursion descended into a child if and
\* only if the condition held of it.
C20_ConditionalSubdivision ==
    Subdivided =>
        /\ \A p \in Visited : \A k \in Slots :
              Append(p, k) \in DOMAIN tree <=>
                  \/ Append(p, k) \in DOMAIN lastOp.before
                  \/ Condition(lastOp.condition, CellAt(Append(p, k)))
        /\ DOMAIN tree =
              DOMAIN lastOp.before
              \cup { q \in { Append(p, k) : p \in Visited, k \in Slots } : Descended(q) }
        /\ \A p \in DOMAIN lastOp.before : tree[p] = lastOp.before[p]
        /\ \A p \in DOMAIN tree : tree[p] = CellAt(p)

C20_Witness ==
    /\ Subdivided
    /\ DOMAIN tree # DOMAIN lastOp.before
    /\ \E p \in Visited : \E k \in Slots : Append(p, k) \notin DOMAIN tree
    /\ \E p \in Visited : \E k \in Slots :
          /\ Append(p, k) \in DOMAIN lastOp.before
          /\ ~Condition(lastOp.condition, CellAt(Append(p, k)))

\* ---------------------------------- subdivide called on any object of a tree

\* cell.conditional_recursive_subdivide(condition, max_depth), for the cell at
\* path p of the tree.
OpsSubdivideAt(p, c, d) ==
    /\ lastOp.op = "new"
    /\ p \in DOMAIN tree
    /\ LET run == subdivide_run(StartSubdivide(tree), p, c, d)
       IN  /\ tree' = run.tree
           /\ lastOp' = [op |-> "subdivide_at", receiver |-> p, condition |-> c,
                         max_depth |-> d, before |-> tree, calls |-> run.calls,
                         tested |-> run.tested, built |-> run.built]
    /\ UNCHANGED opsFrame

ReceiverPaths == UNION { DOMAIN t : t \in StartTrees }

SubdivideAtNext ==
    \E p \in ReceiverPaths, c \in OpsConditions, d \in 0 .. OpsDepth + 1 : OpsSubdivideAt(p, c, d)

SpecSubdivideAt == OpsInit /\ [][SubdivideAtNext]_vars

\* The objects at and below path p of a tree.
SubtreeAt(t, p) == [q \in { x \in DOMAIN t : IsPrefix(p, x) } |-> t[q]]

\* C21: conditional_recursive_subdivide(condition, max_depth) called on an
\* object whose level is max_depth or more, by the program or by the method
\* itself, leaves the object and all below it as they were and calls the
\* condition for none of its children; no object of a level above max_depth is
\* built or attached, whatever the condition; and the method calls itself on
\* objects of levels up to max_depth only, each deeper than its caller, so it
\* returns.
C21_DepthBound ==
    lastOp.op = "subdivide_at" =>
        LET p == lastOp.receiver
            d == lastOp.max_depth
            t == lastOp.before
        IN  /\ t[p].level >= d =>
                  /\ tree = t
                  /\ lastOp.calls = { p }
                  /\ lastOp.tested = {} /\ lastOp.built = {}
            /\ \A q \in lastOp.calls : tree[q].level >= d =>
                  /\ \A k \in Slots : Append(q, k) \notin lastOp.tested \cup lastOp.built
                  /\ q \in DOMAIN t => SubtreeAt(tree, q) = SubtreeAt(t, q)
            /\ \A q \in lastOp.built \cup (DOMAIN tree \ DOMAIN t) : Len(q) <= d
            /\ \A q \in DOMAIN tree \ DOMAIN t : tree[q].level <= d
            /\ \A q \in lastOp.calls : q = p \/ (IsPrefix(p, q) /\ Len(q) > Len(p) /\ Len(q) <= d)
            /\ tree = conditional_recursive_subdivide(t, p, lastOp.condition, d)

C21_Witness ==
    /\ lastOp.op = "subdivide_at"
    /\ lastOp.condition = [kind |-> "true"]
    /\ DOMAIN tree # DOMAIN lastOp.before
    /\ \E q \in lastOp.calls :
          /\ q # lastOp.receiver
          /\ tree[q].level = lastOp.max_depth
          /\ \E k \in Slots : Append(q, k) \in DOMAIN tree

\* ------------------------------------------------ flatten on a given tree

\* cell.flatten(), for the root or one of its children, on a tree as built,
\* as subdivided or as pruned.
OpsFlatten(p) ==
    /\ lastOp.op # "flatten"
    /\ p \in DOMAIN tree
    /\ lastOp' = [op |-> "flatten", receiver |-> p, before |-> tree,
                  result |-> flatten(tree, p), kind |-> lastOp.op]
    /\ UNCHANGED tree
    /\ UNCHANGED opsFrame

FlattenReceivers == { p \in ReceiverPaths : Len(p) <= 1 }

FlattenNext ==
    \/ \E c \in OpsConditions : OpsPrune(c)
    \/ \E c \in OpsConditions, d \in 0 .. OpsDepth + 1 : OpsSubdivide(c, d)
    \/ \E p \in FlattenReceivers : OpsFlatten(p)

SpecFlatten == OpsInit /\ [][FlattenNext]_vars

\* The places of the list that hold the receiver's object at path q or an
\* object below it.
PlacesBelow(q) == { n \in DOMAIN lastOp.result : IsPrefix(q, lastOp.result[n]) }

PlaceOf(q) == CHOOSE n \in DOMAIN lastOp.result : lastOp.result[n] = q

\* C22: for a tree fully subdivided, conditionally subdivided or pruned,
\* flatten() returns every object reachable from the receiver exactly once,
\* each object before all objects below it, with the objects at and below each
\* child in one contiguous run, the runs of a node's children in the order
\* (2i,2j), (2i+1,2j), (2i,2j+1), (2i+1,2j+1) with absent children skipped; the
\* tree is as it was.
C22_FlattenOrder ==
    lastOp.op = "flatten" =>
        LET l     == lastOp.result
            nodes == { q \in DOMAIN tree : IsPrefix(lastOp.receiver, q) }
        IN  /\ tree = lastOp.before
            /\ Range(l) = nodes
            /\ Len(l) = Cardinality(nodes)
            /\ l[1] = lastOp.receiver
            /\ \A m, n \in DOMAIN l : (m # n /\ IsPrefix(l[m], l[n])) => m < n
            /\ \A q \in nodes :
                  LET first == PlaceOf(q)
                      below == PlacesBelow(q)
                  IN  /\ below = first .. (first + Cardinality(below) - 1)
                      /\ \A k, k2 \in Slots :
                            (k < k2 /\ Append(q, k) \in nodes /\ Append(q, k2) \in nodes)
                                => PlaceOf(Append(q, k)) < PlaceOf(Append(q, k2))
                      /\ \A k \in Slots : Append(q, k) \in nodes =>
                            /\ tree[Append(q, k)].i = 2 * tree[q].i + (k % 2)
                            /\ tree[Append(q, k)].j = 2 * tree[q].j + (k \div 2)

\* A tree with an absent child between present ones, two levels below the
\* receiver, flattened after a pruning or a conditional subdivision.
C22_Witness ==
    /\ lastOp.op = "flatten"
    /\ lastOp.kind \in {"prune", "subdivide"}
    /\ \E q \in Range(lastOp.result), k \in Slots :
          /\ Len(q) >= Len(lastOp.receiver) + 2
          /\ Append(SubSeq(q, 1, Len(q) - 1), k) \notin DOMAIN tree
    /\ \E q \in DOMAIN tree : \E k, k2 \in Slots :
          /\ k + 1 < k2
          /\ Append(q, k) \in DOMAIN tree /\ Append(q, k2) \in DOMAIN tree
          /\ \E k1 \in (k + 1) .. (k2 - 1) : Append(q, k1) \notin DOMAIN tree
          /\ Append(q, k) \in Range(lastOp.result)

\* ------------------------------------- the thumbnails handed on through disk

\* _generate_tile_from_data for the child in slot k of the cell, as a leaf.
LeafGenerate(k) ==
    /\ gpc = "call"
    /\ LET node == ChildTile(merged, k)
       IN  /\ fs' = fs \cup { TilePath(node, "png"), TilePath(node, "hgt.pgm") }
           /\ written' = Log(Log(written, TilePath(node, "png"), node),
                             TilePath(node, "hgt.pgm"), node)
           /\ lastOp' = [op |-> "leaf", node |-> node, images |-> LeafImages]
    /\ gpc' = "returned"
    /\ UNCHANGED <<tree, argVars, empVars, cmd, archive_exists, archive_files, pre, doc,
                   merged, data, dir_exists, tile_cells, queue, task, readPaths, loaded,
                   mlevel, levelsDone, lastNode, calls>>

\* _generate_merged_cell_from_subcells for the cell, from its reads to its
\* two files.
MergeGenerate ==
    /\ gpc = "call"
    /\ data' = MergedData(fs, merged)
    /\ readPaths' = readPaths \cup Range(HeightReads(merged))
    /\ fs' = fs \cup { TilePath(merged, "png"), TilePath(merged, "hgt.pgm") }
    /\ written' = Log(Log(written, TilePath(merged, "png"), merged),
                      TilePath(merged, "hgt.pgm"), merged)
    /\ lastOp' = [op |-> "merge", node |-> merged, images |-> MergeImages]
    /\ gpc' = "returned"
    /\ UNCHANGED <<tree, argVars, empVars, cmd, archive_exists, archive_files, pre, doc,
                   merged, dir_exists, tile_cells, queue, task, loaded, mlevel,
                   levelsDone, lastNode, calls>>

HandoffNext ==
    \/ \E k \in Slots : LeafGenerate(k)
    \/ MergeGenerate

SpecHandoff == MergeInit /\ [][HandoffNext]_vars

LeafDone == lastOp.op = "leaf"

\* The box of the buffer that is fed to the hillshade.
ExpandedWindow == lastOp.images.hillshade.from

\* The box of the buffer that the saved thumbnail is resampled from.
ThumbnailWindow == lastOp.images.heights.from

\* C23, as stated: the thumbnail of a leaf is resampled from the whole
\* expanded buffer, the window that is fed to the hillshade.
C23_ThumbnailOfExpandedWindow ==
    LeafDone => ThumbnailWindow = ExpandedWindow

\* C23: the thumbnail saved by the leaf tile generator, 128 samples a side,
\* is resampled from the box (8, 8, 263, 263) of the expanded buffer of 272
\* samples a side: a box strictly inside the window that is fed to the
\* hillshade, which is the whole buffer, with the 8 samples of context left
\* out on every side.
C23_LeafThumbnailWindow ==
    LeafDone =>
        /\ lastOp.images.heights.side = ThumbSize
        /\ lastOp.images.buffer.side = 2 * ThumbSize + 2 * Margin
        /\ ExpandedWindow = <<0, 0, lastOp.images.buffer.side, lastOp.images.buffer.side>>
        /\ ThumbnailWindow =
              <<Margin, Margin, 2 * ThumbSize - 1 + Margin, 2 * ThumbSize - 1 + Margin>>
        /\ ThumbnailWindow # ExpandedWindow
        /\ \A n \in { 1, 2 } :
              /\ ExpandedWindow[n] + Margin = ThumbnailWindow[n]
              /\ ThumbnailWindow[n + 2] + Margin < ExpandedWindow[n + 2]

C23_Witness ==
    /\ LeafDone
    /\ TilePath(lastOp.node, "hgt.pgm") \in fs \ pre.fs
    /\ lastOp.node.level = MaxMergeLevel + 1

ThumbnailSaved == lastOp.op \in { "leaf", "merge" }

\* In samples of the buffer, counted over the whole level of the node: the box
\* of the tile, and the box that a box of the buffer lies on, the buffer
\* starting margin samples before the tile.
TileFootprint(node) ==
    <<2 * ThumbSize * node.i, 2 * ThumbSize * node.j,
      2 * ThumbSize * (node.i + 1), 2 * ThumbSize * (node.j + 1)>>

OnLevel(node, box) ==
    <<2 * ThumbSize * node.i - Margin + box[1], 2 * ThumbSize * node.j - Margin + box[2],
      2 * ThumbSize * node.i - Margin + box[3], 2 * ThumbSize * node.j - Margin + box[4]>>

\* C24: the thumbnail written by the leaf generation and the thumbnail written
\* by a merge are both resampled from the central box (8, 8, 264, 264) of the
\* padded buffer of 272 samples a side, the box that is also cropped for the
\* image of the tile, so that a stored thumbnail covers exactly the footprint
\* of its tile.
C24_SameCropBox ==
    ThumbnailSaved =>
        /\ ThumbnailWindow =
              <<Margin, Margin, 2 * ThumbSize + Margin, 2 * ThumbSize + Margin>>
        /\ ThumbnailWindow = lastOp.images.img.from
        /\ OnLevel(lastOp.node, ThumbnailWindow) = TileFootprint(lastOp.node)

\* The merge's half of C24 alone.
MergeCropBox ==
    lastOp.op = "merge" =>
        /\ ThumbnailWindow =
              <<Margin, Margin, 2 * ThumbSize + Margin, 2 * ThumbSize + Margin>>
        /\ ThumbnailWindow = lastOp.images.img.from
        /\ OnLevel(lastOp.node, ThumbnailWindow) = TileFootprint(lastOp.node)

====
